---- MODULE Spec2Model ----
(***************************************************************************)
(* Verification model of the retail-sales query pipeline:                  *)
(*   DataLoader (CSV cache), SearchService, FilterService, SortService,    *)
(*   PaginationService, TransactionService (array backend),                *)
(*   TransactionServiceMongo (indexed backend), DataImporter and the       *)
(*   frontend's transactions slice.                                        *)
(*                                                                         *)
(* Encoding of JavaScript values                                           *)
(*   - a string is a sequence of one-character strings;                    *)
(*   - a dynamically typed argument is a record [t, s, n]: t is the        *)
(*     typeof tag ("string", "number", "null", "undefined", "nan"), s the  *)
(*     characters of a string, n the value of a number;                    *)
(*   - a CSV cell of a numeric or date column is a record [k, n]: k is     *)
(*     "num" (the cell parses, to n), "empty" or "text" (unparsable).      *)
(***************************************************************************)
EXTENDS Integers, Sequences, FiniteSets, TLC

VARIABLES
  file,        \* rows of the CSV file read by DataLoader.loadData
  fileExists,  \* fs.existsSync(absolutePath)
  now,         \* the wall clock read by new Date()
  data,        \* DataLoader.data: [ref, items]; ref = 0 is null
  isLoaded,    \* DataLoader.isLoaded
  loads,       \* per caller: the promise returned by loadData and its stream
  fileReads,   \* number of fs.createReadStream calls made so far
  clearedAt,   \* history: fileReads when clearCache last returned
  collection,  \* documents of the Transaction collection (indexed backend)
  req,         \* params of the latest getTransactions call
  resArray,    \* what TransactionService.getTransactions returned for req
  resMongo,    \* what TransactionServiceMongo.getTransactions returned for req
  call,        \* arguments of the latest direct call of a pipeline stage
  ret,         \* value that call returned
  walk,        \* a client fetching page after page of call.data
  state,       \* the transactions slice of the Redux store
  dispatched,  \* the Redux action dispatched last
  requests,    \* the fetchTransactions thunks dispatched so far
  importer     \* DataImporter.importFromCSV: its stream, closure and counters

vars == <<file, fileExists, now, data, isLoaded, loads, fileReads,
          collection, req, resArray, resMongo, call, ret, walk,
          state, dispatched, requests, importer, clearedAt>>

loaderVars == <<file, fileExists, data, isLoaded, loads, fileReads>>
engineVars == <<collection, req, resArray, resMongo>>
stageVars == <<call, ret, walk>>
clientVars == <<state, dispatched, requests>>

(***************************************************************************)
(* Bounds                                                                  *)
(***************************************************************************)
MaxLen == 2        \* longest array handed to search and filter
MaxRows == 2       \* most rows in the CSV file
MaxSortLen == 3    \* longest array handed to sortTransactions
MaxPageLen == 4    \* longest array handed to paginate
MaxPage == 4       \* largest page number requested
MaxClock == 1      \* clock ticks observed
MaxReads == 3      \* file reads after which no new load is started
NumCallers == 2    \* concurrent callers of loadData

Callers == 1..NumCallers

(***************************************************************************)
(* JavaScript strings and values                                           *)
(***************************************************************************)
Min(a, b) == IF a < b THEN a ELSE b
Max(a, b) == IF a > b THEN a ELSE b

\* Number of times v occurs in the sequence s.
Count(s, v) == Cardinality({i \in 1..Len(s) : s[i] = v})

\* All sequences over S of length at most n.
SeqsUpTo(S, n) == UNION {[1..k -> S] : k \in 0..n}

\* String.prototype.toLowerCase on one character of the alphabet in use.
LowerChar(c) ==
  CASE c = "A" -> "a"
    [] c = "B" -> "b"
    [] c = "J" -> "j"
    [] OTHER -> c

toLowerCase(s) == [i \in 1..Len(s) |-> LowerChar(s[i])]

\* String.prototype.trim: drops leading and trailing blanks.
trim(s) ==
  LET ink == {i \in 1..Len(s) : s[i] # " "}
  IN IF ink = {} THEN <<>>
     ELSE SubSeq(s, CHOOSE i \in ink : \A j \in ink : i <= j,
                    CHOOSE i \in ink : \A j \in ink : i >= j)

\* String.prototype.includes: t occurs in s as a contiguous substring.
includes(s, t) ==
  \E i \in 0..(Len(s) - Len(t)) : SubSeq(s, i + 1, i + Len(t)) = t

JsStr(s) == [t |-> "string", s |-> s, n |-> 0]
JsNum(n) == [t |-> "number", s |-> <<>>, n |-> n]
JsNaN == [t |-> "nan", s |-> <<>>, n |-> 0]
JsNull == [t |-> "null", s |-> <<>>, n |-> 0]
JsUndefined == [t |-> "undefined", s |-> <<>>, n |-> 0]

\* ToBoolean(v) = false.
Falsy(v) ==
  \/ v.t \in {"null", "undefined", "nan"}
  \/ v.t = "string" /\ v.s = <<>>
  \/ v.t = "number" /\ v.n = 0

(***************************************************************************)
(* Dates.  A date string is a sequence of decimal digits; new Date(s)      *)
(* parses it to the timestamp it denotes, so that "9" and "09" are the     *)
(* same instant and "9" is before "10".  toISOString prints two digits.    *)
(***************************************************************************)
Digits == <<"0", "1", "2", "3", "4", "5", "6", "7", "8", "9">>

DigitVal(c) == (CHOOSE i \in 1..10 : Digits[i] = c) - 1

RECURSIVE DateParse(_)
DateParse(s) ==
  IF s = <<>> THEN 0
  ELSE 10 * DateParse(SubSeq(s, 1, Len(s) - 1)) + DigitVal(s[Len(s)])

toISOString(n) == <<Digits[(n \div 10) + 1], Digits[(n % 10) + 1]>>

(***************************************************************************)
(* CSV cells                                                               *)
(***************************************************************************)
Cell(n) == [k |-> "num", n |-> n]
EmptyCell == [k |-> "empty", n |-> 0]
TextCell == [k |-> "text", n |-> 0]

\* DataLoader.parseNumber: the parsed number, 0 for empty or unparsable.
parseNumber(cell) == IF cell.k = "num" THEN cell.n ELSE 0

\* DataLoader.parseTags: split on commas, trim, drop the empty pieces.
\* The cell is given as its comma-separated pieces, already trimmed.
parseTags(pieces) == SelectSeq(pieces, LAMBDA p : p # "")

\* DataLoader.parseDate: the ISO string of the parsed timestamp, or of the
\* current time when the cell is empty or does not parse.
parseDate(cell, clock) == toISOString(IF cell.k = "num" THEN cell.n ELSE clock)

\* DataLoader.parseTransaction.  transactionId is not among the fields kept.
parseTransaction(row, clock) ==
  [customerId |-> row.customerId,
   customerName |-> row.customerName,
   phoneNumber |-> row.phoneNumber,
   gender |-> row.gender,
   age |-> parseNumber(row.age),
   customerRegion |-> row.customerRegion,
   productCategory |-> row.productCategory,
   tags |-> parseTags(row.tags),
   quantity |-> parseNumber(row.quantity),
   totalAmount |-> parseNumber(row.totalAmount),
   finalAmount |-> parseNumber(row.finalAmount),
   date |-> parseDate(row.date, clock),
   paymentMethod |-> row.paymentMethod]

(***************************************************************************)
(* DataLoader                                                              *)
(***************************************************************************)
NullData == [ref |-> 0, items |-> <<>>]

IdleLoad == [pc |-> "idle", ref |-> 0, pos |-> 0, results |-> <<>>, got |-> 0]

\* loadData, up to the point where the promise is returned: the cache
\* check, then the promise executor (existsSync, createReadStream).
LoadDataCall(c) ==
  /\ loads[c].pc = "idle"
  /\ IF isLoaded /\ data.ref # 0
     THEN /\ loads' = [loads EXCEPT ![c] =
                 [IdleLoad EXCEPT !.pc = "resolved", !.got = data.ref]]
          /\ UNCHANGED fileReads
     ELSE IF ~fileExists
     THEN /\ loads' = [loads EXCEPT ![c] = [IdleLoad EXCEPT !.pc = "rejected"]]
          /\ UNCHANGED fileReads
     ELSE /\ fileReads < MaxReads
          /\ fileReads' = fileReads + 1
          /\ loads' = [loads EXCEPT ![c] =
                 [IdleLoad EXCEPT !.pc = "reading", !.ref = fileReads + 1]]
  /\ UNCHANGED <<clientVars, importer, clearedAt, file, fileExists, now, data,
                 isLoaded,
                 engineVars, stageVars>>

\* The stream's 'data' handler: parse the next row and push it.
OnData(c) ==
  /\ loads[c].pc = "reading"
  /\ loads[c].pos < Len(file)
  /\ loads' = [loads EXCEPT
       ![c].pos = @ + 1,
       ![c].results = Append(@, parseTransaction(file[loads[c].pos + 1], now))]
  /\ UNCHANGED <<clientVars, importer, clearedAt, file, fileExists, now, data,
                 isLoaded,
                 fileReads,
                 engineVars, stageVars>>

\* The stream's 'end' handler: publish the results and resolve.
OnEnd(c) ==
  /\ loads[c].pc = "reading"
  /\ loads[c].pos = Len(file)
  /\ data' = [ref |-> loads[c].ref, items |-> loads[c].results]
  /\ isLoaded' = TRUE
  /\ loads' = [loads EXCEPT ![c].pc = "resolved", ![c].got = loads[c].ref]
  /\ UNCHANGED <<clientVars, importer, clearedAt, file, fileExists, now,
                 fileReads,
                 engineVars, stageVars>>

\* The stream's 'error' handler: reject; the cache is left alone.
OnError(c) ==
  /\ loads[c].pc = "reading"
  /\ loads' = [loads EXCEPT ![c].pc = "rejected"]
  /\ UNCHANGED <<clientVars, importer, clearedAt, file, fileExists, now, data,
                 isLoaded,
                 fileReads,
                 engineVars, stageVars>>

\* The caller has consumed the settled promise and may call again.
Settle(c) ==
  /\ loads[c].pc \in {"resolved", "rejected"}
  /\ loads' = [loads EXCEPT ![c] = IdleLoad]
  /\ UNCHANGED <<clientVars, importer, clearedAt, file, fileExists, now, data,
                 isLoaded,
                 fileReads,
                 engineVars, stageVars>>

\* DataLoader.getData
getData == data

\* DataLoader.clearCache.  clearedAt records which reads had been started
\* when it returned; the code keeps no such record.
ClearCacheMutant ==
  /\ data' = NullData
  /\ clearedAt' = fileReads
  /\ UNCHANGED <<clientVars, importer, file, fileExists, now, isLoaded, loads,
                 fileReads, engineVars,
                 stageVars>>

ClearCache ==
  /\ data' = NullData
  /\ isLoaded' = FALSE
  /\ clearedAt' = fileReads
  /\ UNCHANGED <<clientVars, importer, file, fileExists, now, loads,
                 fileReads, engineVars, stageVars>>

\* Time passes.
Tick ==
  /\ now < MaxClock
  /\ now' = now + 1
  /\ UNCHANGED <<clientVars, importer, clearedAt, loaderVars, engineVars,
                 stageVars>>

(***************************************************************************)
(* Absent values                                                           *)
(***************************************************************************)
\* An absent (undefined) string or array property.
Undefined == <<"undefined">>

\* An absent (undefined) numeric property.
UndefinedNum == -1

\* x || '' on a string property.
OrEmpty(s) == IF s = Undefined THEN <<>> ELSE s

\* x || 0 on a numeric property.
OrZero(n) == IF n = UndefinedNum THEN 0 ELSE n

\* Array.isArray(x) ? x : [] on an array property.
OrNoItems(l) == IF l = Undefined THEN <<>> ELSE l

(***************************************************************************)
(* SearchService                                                           *)
(***************************************************************************)
\* The predicate handed to data.filter in searchTransactions.
searchMatchesMutant(transaction, normalizedTerm) ==
  includes(toLowerCase(OrEmpty(transaction.customerName)), normalizedTerm)

searchMatches(transaction, normalizedTerm) ==
  LET customerName == toLowerCase(OrEmpty(transaction.customerName))
      phoneNumber == OrEmpty(transaction.phoneNumber)
  IN includes(customerName, normalizedTerm) \/ includes(phoneNumber, normalizedTerm)

searchTransactionsMutant(d, searchTerm) ==
  IF Falsy(searchTerm) \/ searchTerm.t # "string" THEN d
  ELSE SelectSeq(d, LAMBDA tr : searchMatches(tr, toLowerCase(searchTerm.s)))

searchTransactions(d, searchTerm) ==
  IF Falsy(searchTerm) \/ searchTerm.t # "string" THEN d
  ELSE LET normalizedTerm == trim(toLowerCase(searchTerm.s))
       IN IF normalizedTerm = <<>> THEN d
          ELSE SelectSeq(d, LAMBDA tr : searchMatches(tr, normalizedTerm))

\* searchTransactions took one of its `return data` branches: what it
\* returned is the array it was given, not a new one.
searchReturnsData(searchTerm) ==
  \/ Falsy(searchTerm)
  \/ searchTerm.t # "string"
  \/ trim(toLowerCase(searchTerm.s)) = <<>>

(***************************************************************************)
(* FilterService                                                           *)
(***************************************************************************)
\* Array.prototype.includes
InList(l, v) == \E i \in 1..Len(l) : l[i] = v

\* The guard `filters.x && filters.x.length > 0` of applyFilters.
Given(l) == l # Undefined /\ Len(l) > 0

filterByCustomerRegion(d, regions) ==
  SelectSeq(d, LAMBDA tr : InList(regions, tr.customerRegion))

filterByGender(d, genders) ==
  SelectSeq(d, LAMBDA tr : InList(genders, tr.gender))

filterByAgeRangeMutant(d, range) ==
  SelectSeq(d, LAMBDA tr :
    LET age == tr.age IN
    IF range.min # UndefinedNum /\ range.max # UndefinedNum
      THEN age > range.min /\ age < range.max
    ELSE IF range.min # UndefinedNum THEN age > range.min
    ELSE IF range.max # UndefinedNum THEN age < range.max
    ELSE TRUE)

filterByAgeRange(d, range) ==
  SelectSeq(d, LAMBDA tr :
    LET age == tr.age IN
    IF range.min # UndefinedNum /\ range.max # UndefinedNum
      THEN age >= range.min /\ age <= range.max
    ELSE IF range.min # UndefinedNum THEN age >= range.min
    ELSE IF range.max # UndefinedNum THEN age <= range.max
    ELSE TRUE)

filterByProductCategory(d, categories) ==
  SelectSeq(d, LAMBDA tr : InList(categories, tr.productCategory))

filterByTags(d, filterTags) ==
  SelectSeq(d, LAMBDA tr :
    LET transactionTags == OrNoItems(tr.tags)
    IN \E i \in 1..Len(filterTags) : InList(transactionTags, filterTags[i]))

filterByPaymentMethod(d, methods) ==
  SelectSeq(d, LAMBDA tr : InList(methods, tr.paymentMethod))

\* start and end are date strings; the empty string and undefined are falsy.
filterByDateRange(d, range) ==
  SelectSeq(d, LAMBDA tr :
    LET transactionDate == DateParse(tr.date) IN
    IF OrEmpty(range.start) # <<>> /\ OrEmpty(range.end) # <<>>
      THEN transactionDate >= DateParse(range.start)
           /\ transactionDate <= DateParse(range.end)
    ELSE IF OrEmpty(range.start) # <<>>
      THEN transactionDate >= DateParse(range.start)
    ELSE IF OrEmpty(range.end) # <<>>
      THEN transactionDate <= DateParse(range.end)
    ELSE TRUE)

\* filters.t is the typeof tag of the filters argument; ageRange.has and
\* dateRange.has say whether the property is present.
applyFilters(d, filters) ==
  IF filters.t # "object" THEN d
  ELSE
    LET r1 == IF Given(filters.customerRegion)
              THEN filterByCustomerRegion(d, filters.customerRegion) ELSE d
        r2 == IF Given(filters.gender)
              THEN filterByGender(r1, filters.gender) ELSE r1
        r3 == IF filters.ageRange.has
              THEN filterByAgeRange(r2, filters.ageRange) ELSE r2
        r4 == IF Given(filters.productCategory)
              THEN filterByProductCategory(r3, filters.productCategory) ELSE r3
        r5 == IF Given(filters.tags)
              THEN filterByTags(r4, filters.tags) ELSE r4
        r6 == IF Given(filters.paymentMethod)
              THEN filterByPaymentMethod(r5, filters.paymentMethod) ELSE r5
        r7 == IF filters.dateRange.has
              THEN filterByDateRange(r6, filters.dateRange) ELSE r6
    IN r7

\* applyFilters ran none of the filterBy methods: what it returned is the
\* array it was given, not a new one.
applyFiltersReturnsData(filters) ==
  \/ filters.t # "object"
  \/ /\ ~Given(filters.customerRegion)
     /\ ~Given(filters.gender)
     /\ ~filters.ageRange.has
     /\ ~Given(filters.productCategory)
     /\ ~Given(filters.tags)
     /\ ~Given(filters.paymentMethod)
     /\ ~filters.dateRange.has

\* FilterService.getFilterOptions: the distinct values found in the data.
\* Each option list is sorted and free of duplicates, so the set of its
\* members stands for it.
filterOptions(d) ==
  [regions |-> {d[i].customerRegion : i \in DOMAIN d} \ {""},
   genders |-> {d[i].gender : i \in DOMAIN d} \ {""},
   categories |-> {d[i].productCategory : i \in DOMAIN d} \ {""},
   tags |-> UNION {{d[i].tags[j] : j \in DOMAIN d[i].tags} : i \in DOMAIN d},
   paymentMethods |-> {d[i].paymentMethod : i \in DOMAIN d} \ {""}]

(***************************************************************************)
(* SortService                                                             *)
(***************************************************************************)
\* Collation rank of a character, as String.prototype.localeCompare orders
\* lower-case text: blank, punctuation, digits, letters.
CollationRank(c) ==
  CASE c = " " -> 0
    [] c = "." -> 1
    [] c = "1" -> 2
    [] c = "2" -> 3
    [] c = "a" -> 4
    [] c = "b" -> 5
    [] c = "j" -> 6
    [] OTHER -> 7

\* Lexicographic comparison of two strings given as the sequences of their
\* characters' ranks: negative, zero or positive.
RECURSIVE CompareBy(_, _)
CompareBy(a, b) ==
  IF a = <<>> /\ b = <<>> THEN 0
  ELSE IF a = <<>> THEN -1
  ELSE IF b = <<>> THEN 1
  ELSE IF Head(a) # Head(b) THEN Head(a) - Head(b)
  ELSE CompareBy(Tail(a), Tail(b))

localeCompare(a, b) ==
  CompareBy([i \in DOMAIN a |-> CollationRank(a[i])],
            [i \in DOMAIN b |-> CollationRank(b[i])])

\* Unicode code point order of the characters in use.
CodePoint(c) ==
  CASE c = " " -> 32
    [] c = "." -> 46
    [] c = "A" -> 65
    [] c = "B" -> 66
    [] c = "J" -> 74
    [] c = "a" -> 97
    [] c = "b" -> 98
    [] c = "j" -> 106
    [] OTHER -> 48 + DigitVal(c)

\* Comparison of two strings by code points.
codePointCompare(a, b) ==
  CompareBy([i \in DOMAIN a |-> CodePoint(a[i])],
            [i \in DOMAIN b |-> CodePoint(b[i])])

\* The comparator of sortByDate.
compareDateMutant(a, b, sortOrder) ==
  IF sortOrder = "asc" THEN codePointCompare(a.date, b.date)
  ELSE codePointCompare(b.date, a.date)

compareDate(a, b, sortOrder) ==
  IF sortOrder = "asc" THEN DateParse(a.date) - DateParse(b.date)
  ELSE DateParse(b.date) - DateParse(a.date)

\* The comparator of sortByQuantity.
compareQuantity(a, b, sortOrder) ==
  IF sortOrder = "asc" THEN OrZero(a.quantity) - OrZero(b.quantity)
  ELSE OrZero(b.quantity) - OrZero(a.quantity)

\* The comparator of sortByCustomerName.
compareCustomerName(a, b, sortOrder) ==
  LET comparison == localeCompare(toLowerCase(OrEmpty(a.customerName)),
                                  toLowerCase(OrEmpty(b.customerName)))
  IN IF sortOrder = "asc" THEN comparison ELSE 0 - comparison

\* Array.prototype.sort: a stable sort by the comparator, given as the
\* function cmp from pairs of elements to numbers.  x goes after every
\* element of the sorted prefix that the comparator does not put after it.
RECURSIVE InsertSorted(_, _, _)
InsertSorted(cmp, sorted, x) ==
  IF sorted = <<>> THEN <<x>>
  ELSE IF cmp[<<sorted[Len(sorted)], x>>] <= 0 THEN Append(sorted, x)
  ELSE Append(InsertSorted(cmp, SubSeq(sorted, 1, Len(sorted) - 1), x),
              sorted[Len(sorted)])

RECURSIVE ArraySort(_, _)
ArraySort(cmp, a) ==
  IF a = <<>> THEN <<>>
  ELSE InsertSorted(cmp, ArraySort(cmp, SubSeq(a, 1, Len(a) - 1)), a[Len(a)])

\* The pairs of elements of an array, on which its comparator is called.
Pairs(a) == {a[i] : i \in DOMAIN a} \X {a[i] : i \in DOMAIN a}

Reverse(a) == [i \in 1..Len(a) |-> a[Len(a) + 1 - i]]

sortByDateMutant(d, sortOrder) ==
  IF sortOrder = "asc"
  THEN ArraySort([p \in Pairs(d) |-> compareDate(p[1], p[2], "asc")], d)
  ELSE Reverse(ArraySort([p \in Pairs(d) |-> compareDate(p[1], p[2], "asc")], d))

sortByDate(d, sortOrder) ==
  ArraySort([p \in Pairs(d) |-> compareDate(p[1], p[2], sortOrder)], d)

sortByQuantity(d, sortOrder) ==
  ArraySort([p \in Pairs(d) |-> compareQuantity(p[1], p[2], sortOrder)], d)

sortByCustomerName(d, sortOrder) ==
  ArraySort([p \in Pairs(d) |-> compareCustomerName(p[1], p[2], sortOrder)], d)

sortTransactions(d, sortBy, sortOrder) ==
  IF d = <<>> THEN d
  ELSE IF sortBy \notin {"date", "quantity", "customerName"} THEN d
  ELSE CASE sortBy = "date" -> sortByDate(d, sortOrder)
         [] sortBy = "quantity" -> sortByQuantity(d, sortOrder)
         [] sortBy = "customerName" -> sortByCustomerName(d, sortOrder)

\* The contents of the array handed to sortTransactions once it has
\* returned: Array.prototype.sort works in place, on the copy [...data].
sortTransactionsLeavesMutant(d, sortBy, sortOrder) ==
  sortTransactions(d, sortBy, sortOrder)

sortTransactionsLeaves(d, sortBy, sortOrder) == d

(***************************************************************************)
(* PaginationService                                                       *)
(***************************************************************************)
MAX_PAGE_SIZE == 100

IsDigit(c) == \E i \in 1..10 : Digits[i] = c

\* The longest prefix of s made of digits.
RECURSIVE DigitPrefix(_)
DigitPrefix(s) ==
  IF s = <<>> \/ ~IsDigit(Head(s)) THEN <<>>
  ELSE <<Head(s)>> \o DigitPrefix(Tail(s))

\* parseInt: an integer is itself; a string is the value of its leading
\* digits (blanks skipped, a leading "-" honoured); anything else is NaN.
parseInt(v) ==
  IF v.t = "number" THEN v
  ELSE IF v.t = "string" THEN
    LET s == trim(v.s)
        neg == s # <<>> /\ Head(s) = "-"
        body == DigitPrefix(IF neg THEN Tail(s) ELSE s)
    IN IF body = <<>> THEN JsNaN
       ELSE JsNum(IF neg THEN 0 - DateParse(body) ELSE DateParse(body))
  ELSE JsNaN

validatePage(page) ==
  LET parsed == parseInt(page)
  IN IF parsed.t = "nan" \/ parsed.n < 1 THEN 1 ELSE parsed.n

validatePageSizeMutant(pageSize) ==
  LET parsed == parseInt(pageSize)
  IN IF parsed.t = "nan" \/ parsed.n < 1 THEN 10
     ELSE parsed.n

validatePageSize(pageSize) ==
  LET parsed == parseInt(pageSize)
  IN IF parsed.t = "nan" \/ parsed.n < 1 THEN 10
     ELSE Min(parsed.n, MAX_PAGE_SIZE)

\* Math.ceil(a / b) for a >= 0, b > 0.
CeilMutant(a, b) == a \div b

Ceil(a, b) == (a + b - 1) \div b

\* Array.prototype.slice(start, end) with 0 <= start.
sliceMutant(a, start, end) == SubSeq(a, start + 1, Min(end, Len(a)) - 1)

slice(a, start, end) == SubSeq(a, start + 1, Min(end, Len(a)))

\* totalPages || 1
OrOne(n) == IF n = 0 THEN 1 ELSE n

\* Math.max(1, Math.min(parsedPage, totalPages || 1))
clampPageMutant(parsedPage, totalPages) == Max(1, parsedPage)

clampPage(parsedPage, totalPages) == Max(1, Min(parsedPage, OrOne(totalPages)))

paginate(d, page, pageSize) ==
  LET parsedPage == validatePage(page)
      parsedPageSize == validatePageSize(pageSize)
      totalItems == Len(d)
      totalPages == Ceil(totalItems, parsedPageSize)
      validPage == clampPage(parsedPage, totalPages)
      startIndex == (validPage - 1) * parsedPageSize
      endIndex == startIndex + parsedPageSize
  IN [items |-> slice(d, startIndex, endIndex),
      pagination |->
        [currentPage |-> validPage,
         pageSize |-> parsedPageSize,
         totalItems |-> totalItems,
         totalPages |-> totalPages,
         hasNextPage |-> validPage < totalPages,
         hasPreviousPage |-> validPage > 1,
         startIndex |-> IF totalItems > 0 THEN startIndex + 1 ELSE 0,
         endIndex |-> Min(endIndex, totalItems)]]

(***************************************************************************)
(* Initial values of the parts a specification leaves alone                *)
(***************************************************************************)
None == [t |-> "none"]

NoCall == [op |-> "none", data |-> <<>>]

IdleWalk == [active |-> FALSE, pageSize |-> 0, next |-> 0, total |-> 0,
             acc |-> <<>>]

LoaderIdle ==
  /\ data = NullData
  /\ isLoaded = FALSE
  /\ loads = [c \in Callers |-> IdleLoad]
  /\ fileReads = 0
  /\ now = 0

EngineIdle ==
  /\ req = None
  /\ resArray = None
  /\ resMongo = None

\* initialState of the transactions slice.
initialState ==
  [items |-> <<>>,
   pagination |-> [currentPage |-> 1, pageSize |-> 10, totalItems |-> 0,
                   totalPages |-> 0, hasNextPage |-> FALSE,
                   hasPreviousPage |-> FALSE],
   aggregateStats |-> [totalUnits |-> 0, totalAmount |-> 0, totalDiscount |-> 0,
                       recordCount |-> 0],
   loading |-> FALSE,
   error |-> JsNull,
   search |-> <<>>,
   sortBy |-> "date",
   sortOrder |-> "desc"]

\* The store's own first action.
NoAction == [type |-> "@@INIT", payload |-> JsUndefined]

ClientIdle ==
  /\ state = initialState
  /\ dispatched = NoAction
  /\ requests = <<>>

\* No import has been started.
NoImport == [pc |-> "none"]

ImporterIdle == importer = NoImport

StagesIdle ==
  /\ call = NoCall
  /\ ret = None
  /\ walk = IdleWalk

(***************************************************************************)
(* Pagination stage on its own                                             *)
(***************************************************************************)
PageElems == {"x", "y"}

PageArrays == SeqsUpTo(PageElems, MaxPageLen)

PageArgs ==
  {JsNum(n) : n \in 0..MaxPage} \cup
  {JsNum(-1), JsUndefined, JsNaN, JsStr(<<"2">>), JsStr(<<"a">>)} \cup
  {JsNull, JsStr(<<"0">>), JsStr(<<"2", "a">>)}

PageSizeArgs ==
  {JsNum(n) : n \in (0..MaxPageLen) \cup {MAX_PAGE_SIZE, MAX_PAGE_SIZE + 1}} \cup
  {JsNum(-1), JsUndefined, JsStr(<<"2">>), JsStr(<<"a">>)} \cup
  {JsNull, JsStr(<<"-", "1">>), JsStr(<<"1", "0", "1">>)}

WalkSizes == (1..MaxPageLen) \cup {MAX_PAGE_SIZE}

InitPage ==
  /\ call \in {[op |-> "none", data |-> d] : d \in PageArrays}
  /\ ret = None
  /\ walk = IdleWalk
  /\ ClientIdle
  /\ ImporterIdle
  /\ clearedAt = 0
  /\ file = <<>>
  /\ fileExists = TRUE
  /\ collection = <<>>
  /\ LoaderIdle
  /\ EngineIdle

\* paginationService.paginate(call.data, page, pageSize), once per array.
Paginate(page, pageSize) ==
  /\ call.op = "none"
  /\ call' = [op |-> "paginate", data |-> call.data,
              page |-> page, pageSize |-> pageSize]
  /\ ret' = paginate(call.data, page, pageSize)
  /\ walk' = IdleWalk
  /\ UNCHANGED <<clientVars, importer, clearedAt, loaderVars, now, engineVars>>

\* A client asks for page 1 with page size s and keeps what it got.
FetchFirst(s) ==
  LET r == paginate(call.data, JsNum(1), JsNum(s)) IN
  /\ call.op = "none"
  /\ call' = [op |-> "paginate", data |-> call.data,
              page |-> JsNum(1), pageSize |-> JsNum(s)]
  /\ ret' = r
  /\ walk' = [active |-> TRUE, pageSize |-> s, next |-> 2,
              total |-> r.pagination.totalPages, acc |-> r.items]
  /\ UNCHANGED <<clientVars, importer, clearedAt, loaderVars, now, engineVars>>

\* The client asks for the next page, up to totalPages.
FetchNext ==
  LET r == paginate(call.data, JsNum(walk.next), JsNum(walk.pageSize)) IN
  /\ walk.active
  /\ walk.next <= walk.total
  /\ call' = [op |-> "paginate", data |-> call.data,
              page |-> JsNum(walk.next), pageSize |-> JsNum(walk.pageSize)]
  /\ ret' = r
  /\ walk' = [walk EXCEPT !.next = @ + 1, !.acc = @ \o r.items]
  /\ UNCHANGED <<clientVars, importer, clearedAt, loaderVars, now, engineVars>>

NextPage ==
  \/ \E page \in PageArgs, pageSize \in PageSizeArgs : Paginate(page, pageSize)
  \/ \E s \in WalkSizes : FetchFirst(s)
  \/ FetchNext

SpecPage == InitPage /\ [][NextPage]_vars

\* C3: for a fixed page size in 1..100, the pages 1..totalPages of an array,
\* concatenated in order, are the array itself.
C3_PagesReproduceInput ==
  (walk.active /\ walk.next > walk.total) => walk.acc = call.data

C3_Witness ==
  /\ walk.active
  /\ walk.next > walk.total
  /\ walk.total >= 2
  /\ Len(call.data) >= 3
  /\ Len(call.data) % walk.pageSize # 0
  /\ \E i, j \in 1..Len(call.data) : call.data[i] # call.data[j]

\* The page a numeric request asks for.
Requested == call.page.n

\* The items from the first item of page p to the end of the array.
ItemsFromPage(d, p, size) == SubSeq(d, (p - 1) * size + 1, Len(d))

\* C10: currentPage lies in [1, max(totalPages, 1)], and a request beyond
\* totalPages >= 1 yields the items of the last page.
C10_PageClamped ==
  call.op = "paginate" =>
    LET pg == ret.pagination IN
    /\ pg.currentPage >= 1
    /\ pg.currentPage <= Max(pg.totalPages, 1)
    /\ (call.page.t = "number" /\ pg.totalPages >= 1 /\ Requested > pg.totalPages)
         => /\ ret.items = ItemsFromPage(call.data, pg.totalPages, pg.pageSize)
            /\ ret.items # <<>>

C10_Witness ==
  /\ call.op = "paginate"
  /\ call.page.t = "number"
  /\ ret.pagination.totalPages = 3
  /\ Requested > 3
  /\ ret.pagination.currentPage = 3
  /\ Len(ret.items) = 1

\* C11: in every paginate result totalItems is the input length, totalPages
\* is the least number of pages of pageSize items that hold them all (0 for
\* no items), hasNextPage and hasPreviousPage compare currentPage with
\* totalPages and 1, and startIndex/endIndex are the 1-based inclusive
\* positions of the first and last returned item (0 and 0 without items).
C11_PageMetadata ==
  call.op = "paginate" =>
    LET pg == ret.pagination
        n == Len(call.data)
    IN /\ pg.totalItems = n
       /\ pg.pageSize >= 1
       /\ pg.totalPages >= 0
       /\ pg.totalPages * pg.pageSize >= n
       /\ pg.totalPages > 0 => (pg.totalPages - 1) * pg.pageSize < n
       /\ pg.hasNextPage = (pg.currentPage < pg.totalPages)
       /\ pg.hasPreviousPage = (pg.currentPage > 1)
       /\ ret.items # <<>> =>
            /\ pg.startIndex = (pg.currentPage - 1) * pg.pageSize + 1
            /\ pg.endIndex \in pg.startIndex..n
            /\ ret.items = SubSeq(call.data, pg.startIndex, pg.endIndex)
            /\ pg.endIndex - pg.startIndex + 1 = Len(ret.items)
       /\ ret.items = <<>> => (pg.startIndex = 0 /\ pg.endIndex = 0)

C11_Witness ==
  /\ call.op = "paginate"
  /\ Len(call.data) = 3
  /\ ret.pagination.pageSize = 2
  /\ ret.pagination.totalPages = 2
  /\ ret.pagination.currentPage = 2
  /\ ret.pagination.startIndex = 3
  /\ ret.pagination.endIndex = 3
  /\ ret.pagination.hasPreviousPage
  /\ ~ret.pagination.hasNextPage
  /\ Len(ret.items) = 1

\* The decimal digits of a natural number.
RECURSIVE Decimal(_)
Decimal(k) ==
  IF k < 10 THEN <<Digits[k + 1]>>
  ELSE Decimal(k \div 10) \o <<Digits[(k % 10) + 1]>>

\* s begins with the digits of k and no further digit follows them.
BeginsWithNumber(s, k) ==
  LET pre == Decimal(k) IN
  /\ Len(s) >= Len(pre)
  /\ SubSeq(s, 1, Len(pre)) = pre
  /\ Len(s) > Len(pre) => s[Len(pre) + 1] \notin {Digits[i] : i \in 1..10}

\* The argument is the natural number k, or a string that starts with it.
Denotes(v, k) ==
  \/ v.t = "number" /\ v.n = k
  \/ v.t = "string" /\ BeginsWithNumber(v.s, k)

\* The argument is a negative number, or a string that starts with one.
Negative(v) ==
  \/ v.t = "number" /\ v.n < 0
  \/ v.t = "string" /\ Len(v.s) >= 2 /\ v.s[1] = "-"
     /\ v.s[2] \in {Digits[i] : i \in 1..10}

\* No integer can be read off the argument.
NonNumeric(v) ==
  \/ v.t \in {"undefined", "null", "nan"}
  \/ v.t = "string" /\ ~Negative(v)
     /\ (v.s = <<>> \/ v.s[1] \notin {Digits[i] : i \in 1..10})

SearchNames == {<<"A", "b">>, <<"J", "a">>, Undefined}

SearchPhones == {<<"1", "2">>, <<"A", "1">>, Undefined}

SearchRecords ==
  {[customerName |-> nm, phoneNumber |-> ph] : nm \in SearchNames, ph \in SearchPhones}

SearchArrays == SeqsUpTo(SearchRecords, MaxLen)

SearchTerms ==
  {JsNull, JsUndefined, JsNum(0), JsNum(12), JsStr(<<>>), JsStr(<<" ">>),
   JsStr(<<" ", " ">>), JsStr(<<"a">>), JsStr(<<"A", "B">>),
   JsStr(<<" ", "a", "b", " ">>), JsStr(<<"1">>), JsStr(<<"a", "1">>),
   JsStr(<<"A", "1">>), JsStr(<<"j">>), JsStr(<<"2", "1">>), JsStr(<<"b", "j">>)}

InitSearch ==
  /\ call \in {[op |-> "none", data |-> d] : d \in SearchArrays}
  /\ ret = None
  /\ walk = IdleWalk
  /\ ClientIdle
  /\ ImporterIdle
  /\ clearedAt = 0
  /\ file = <<>>
  /\ fileExists = TRUE
  /\ collection = <<>>
  /\ LoaderIdle
  /\ EngineIdle

\* searchService.searchTransactions(call.data, term), once per array.
SearchTransactions(term) ==
  /\ call.op = "none"
  /\ call' = [op |-> "search", data |-> call.data, term |-> term]
  /\ ret' = [items |-> searchTransactions(call.data, term)]
  /\ UNCHANGED <<clientVars, importer, clearedAt, walk, loaderVars, now,
                 engineVars>>

NextSearch == \E term \in SearchTerms : SearchTransactions(term)

SpecSearch == InitSearch /\ [][NextSearch]_vars

\* t occurs in s starting at some position.
OccursIn(t, s) ==
  \E i \in 1..Len(s) : \A j \in 1..Len(t) : i + j - 1 <= Len(s) /\ s[i + j - 1] = t[j]

\* A string of blanks only (the empty string included).
Blank(s) == \A i \in 1..Len(s) : s[i] = " "

\* The term without its leading and trailing blanks.
Stripped(s) ==
  CHOOSE u \in {SubSeq(s, i, j) : i, j \in 1..Len(s)} :
    /\ u # <<>> /\ u[1] # " " /\ u[Len(u)] # " "
    /\ \E i \in 1..Len(s) : /\ SubSeq(s, i, i + Len(u) - 1) = u
                            /\ Blank(SubSeq(s, 1, i - 1))
                            /\ Blank(SubSeq(s, i + Len(u), Len(s)))

\* A record the search must keep for the (lower-cased, stripped) term.
Kept(r, term) ==
  \/ r.customerName # Undefined /\ OccursIn(term, toLowerCase(r.customerName))
  \/ r.phoneNumber # Undefined /\ OccursIn(term, r.phoneNumber)

\* C6: for a term that is not blank, the search keeps exactly the records
\* whose lower-cased name or raw phone number contains the lower-cased,
\* trimmed term; a record with neither name nor phone is dropped.
C6_SearchKeepsMatches ==
  (call.op = "search" /\ call.term.t = "string" /\ ~Blank(call.term.s)) =>
    /\ ret.items = SelectSeq(call.data,
         LAMBDA r : Kept(r, toLowerCase(Stripped(call.term.s))))
    /\ \A i \in 1..Len(ret.items) :
         ~(ret.items[i].customerName = Undefined /\ ret.items[i].phoneNumber = Undefined)

C6_Witness ==
  /\ call.op = "search"
  /\ call.term = JsStr(<<" ", "a", "b", " ">>)
  /\ Len(call.data) = 2
  /\ Len(ret.items) = 1
  /\ call.data[1].customerName = Undefined
  /\ call.data[1].phoneNumber = Undefined

\* C7: a term that is null, undefined, empty, blank or not a string leaves
\* the array as it is.
C7_SearchIdentity ==
  (call.op = "search" /\ (call.term.t # "string" \/ Blank(call.term.s))) =>
    ret.items = call.data

C7_Witness ==
  /\ call.op = "search"
  /\ call.term = JsStr(<<" ", " ">>)
  /\ Len(call.data) = 2
  /\ ret.items = call.data
  /\ call.data[1] # call.data[2]

(***************************************************************************)
(* Filter stage on its own                                                 *)
(***************************************************************************)
FilterRecords ==
  [customerRegion : {"North", "South"},
   gender : {"Male", "Female"},
   age : {25, 30, 35},
   productCategory : {"Electronics", "Clothing"},
   tags : {<<"t1", "t2">>, Undefined},
   paymentMethod : {"Card", "Cash"},
   date : {<<"0", "5">>, <<"0", "9">>, <<"1", "0">>}]

\* A few records that differ from one another in every field.
FilterPool ==
  {[customerRegion |-> "North", gender |-> "Male", age |-> 25,
    productCategory |-> "Electronics", tags |-> <<"t1">>,
    paymentMethod |-> "Card", date |-> <<"0", "5">>],
   [customerRegion |-> "South", gender |-> "Female", age |-> 30,
    productCategory |-> "Clothing", tags |-> <<"t1", "t2">>,
    paymentMethod |-> "Cash", date |-> <<"0", "9">>],
   [customerRegion |-> "North", gender |-> "Female", age |-> 35,
    productCategory |-> "Electronics", tags |-> <<>>,
    paymentMethod |-> "Cash", date |-> <<"1", "0">>]}

FilterArrays == {<<r>> : r \in FilterRecords} \cup SeqsUpTo(FilterPool, MaxLen)

NoRange == [has |-> FALSE, min |-> UndefinedNum, max |-> UndefinedNum]

AgeRanges ==
  {NoRange,
   [has |-> TRUE, min |-> UndefinedNum, max |-> UndefinedNum],
   [has |-> TRUE, min |-> 30, max |-> UndefinedNum],
   [has |-> TRUE, min |-> UndefinedNum, max |-> 30],
   [has |-> TRUE, min |-> 25, max |-> 30]}

NoDates == [has |-> FALSE, start |-> Undefined, end |-> Undefined]

DateRanges ==
  {NoDates,
   [has |-> TRUE, start |-> <<"9">>, end |-> Undefined],
   [has |-> TRUE, start |-> <<>>, end |-> <<"9">>],
   [has |-> TRUE, start |-> <<"9">>, end |-> <<"1", "0">>]}

FilterObjects ==
  [t : {"object"},
   customerRegion : {Undefined, <<"North">>},
   gender : {<<>>, <<"Female">>},
   ageRange : AgeRanges,
   productCategory : {Undefined, <<"Clothing">>},
   tags : {Undefined, <<"t2", "t3">>},
   paymentMethod : {<<"Cash", "Card">>, <<"Cash">>},
   dateRange : DateRanges]

\* typeof tags of filters arguments that are not objects.
NonObjects == {[t |-> "null"], [t |-> "undefined"], [t |-> "string"], [t |-> "number"]}

FilterArgs == FilterObjects \cup NonObjects

InitFilter ==
  /\ call \in {[op |-> "none", data |-> d] : d \in FilterArrays}
  /\ ret = None
  /\ walk = IdleWalk
  /\ ClientIdle
  /\ ImporterIdle
  /\ clearedAt = 0
  /\ file = <<>>
  /\ fileExists = TRUE
  /\ collection = <<>>
  /\ LoaderIdle
  /\ EngineIdle

\* filterService.applyFilters(call.data, filters), once per array.
ApplyFilters(filters) ==
  /\ call.op = "none"
  /\ call' = [op |-> "filter", data |-> call.data, filters |-> filters]
  /\ ret' = [items |-> applyFilters(call.data, filters)]
  /\ UNCHANGED <<clientVars, importer, clearedAt, walk, loaderVars, now,
                 engineVars>>

NextFilter == \E filters \in FilterArgs : ApplyFilters(filters)

SpecFilter == InitFilter /\ [][NextFilter]_vars

\* The elements of a list.
Elems(l) == {l[i] : i \in 1..Len(l)}

\* A multi-select criterion is present: a list with at least one value.
Present(l) == l # Undefined /\ l # <<>>

\* The record meets every criterion that the filters object carries.
Satisfies(r, f) ==
  /\ Present(f.customerRegion) => r.customerRegion \in Elems(f.customerRegion)
  /\ Present(f.gender) => r.gender \in Elems(f.gender)
  /\ Present(f.productCategory) => r.productCategory \in Elems(f.productCategory)
  /\ Present(f.paymentMethod) => r.paymentMethod \in Elems(f.paymentMethod)
  /\ Present(f.tags) => /\ r.tags # Undefined
                        /\ Elems(r.tags) \cap Elems(f.tags) # {}
  /\ (f.ageRange.has /\ f.ageRange.min # UndefinedNum) => r.age >= f.ageRange.min
  /\ (f.ageRange.has /\ f.ageRange.max # UndefinedNum) => r.age <= f.ageRange.max
  /\ (f.dateRange.has /\ Present(f.dateRange.start))
       => DateParse(r.date) >= DateParse(f.dateRange.start)
  /\ (f.dateRange.has /\ Present(f.dateRange.end))
       => DateParse(r.date) <= DateParse(f.dateRange.end)

\* C5: applyFilters returns, in their original order, exactly the records
\* that meet every present criterion; filters that are not an object
\* constrain nothing.
C5_FilterExact ==
  call.op = "filter" =>
    ret.items = SelectSeq(call.data,
      LAMBDA r : call.filters.t # "object" \/ Satisfies(r, call.filters))

C5_Witness ==
  /\ call.op = "filter"
  /\ call.filters.t = "object"
  /\ Present(call.filters.gender)
  /\ Present(call.filters.tags)
  /\ call.filters.ageRange = [has |-> TRUE, min |-> 25, max |-> 30]
  /\ call.filters.dateRange = [has |-> TRUE, start |-> <<"9">>, end |-> <<"1", "0">>]
  /\ Len(call.data) = 2
  /\ Len(ret.items) = 1
  /\ ret.items[1].age = 30
  /\ ret.items[1].date = <<"0", "9">>

(***************************************************************************)
(* Sort stage on its own                                                   *)
(***************************************************************************)
\* Records with equal keys that differ elsewhere: "09" and "9" are the same
\* instant, a missing quantity sorts as 0, a missing name as the empty name.
SortRecords ==
  {[date |-> <<"0", "9">>, quantity |-> 2, customerName |-> <<"A", "b">>],
   [date |-> <<"9">>, quantity |-> UndefinedNum, customerName |-> <<"a", "b">>],
   [date |-> <<"1", "0">>, quantity |-> 0, customerName |-> Undefined],
   [date |-> <<"1", "0">>, quantity |-> 2, customerName |-> <<>>],
   [date |-> <<"0", "5">>, quantity |-> 1, customerName |-> <<"B">>]}

SortArrays == SeqsUpTo(SortRecords, MaxSortLen)

SortFields == {"date", "quantity", "customerName", "age"}

SortOrders == {"asc", "desc"}

InitSort ==
  /\ call \in {[op |-> "none", data |-> d] : d \in SortArrays}
  /\ ret = None
  /\ walk = IdleWalk
  /\ ClientIdle
  /\ ImporterIdle
  /\ clearedAt = 0
  /\ file = <<>>
  /\ fileExists = TRUE
  /\ collection = <<>>
  /\ LoaderIdle
  /\ EngineIdle

\* sortService.sortTransactions(call.data, sortBy, sortOrder), once per array.
SortTransactions(sortBy, sortOrder) ==
  /\ call.op = "none"
  /\ call' = [op |-> "sort", data |-> call.data,
              sortBy |-> sortBy, sortOrder |-> sortOrder]
  /\ ret' = [items |-> sortTransactions(call.data, sortBy, sortOrder)]
  /\ UNCHANGED <<clientVars, importer, clearedAt, walk, loaderVars, now,
                 engineVars>>

NextSort ==
  \E sortBy \in SortFields, sortOrder \in SortOrders : SortTransactions(sortBy, sortOrder)

SpecSort == InitSort /\ [][NextSort]_vars

SupportedSort == call.op = "sort" /\ call.sortBy \in {"date", "quantity", "customerName"}

\* The sort key of a record: a timestamp, a number, or a lower-case name.
SortKey(r, sortBy) ==
  CASE sortBy = "date" -> <<DateParse(r.date)>>
    [] sortBy = "quantity" -> <<IF r.quantity = UndefinedNum THEN 0 ELSE r.quantity>>
    [] sortBy = "customerName" ->
         IF r.customerName = Undefined THEN <<>> ELSE toLowerCase(r.customerName)

\* C8: records with equal sort keys keep their relative order.
C8_SortStable ==
  SupportedSort =>
    \A r \in SortRecords :
      SelectSeq(ret.items, LAMBDA x : SortKey(x, call.sortBy) = SortKey(r, call.sortBy))
        = SelectSeq(call.data, LAMBDA x : SortKey(x, call.sortBy) = SortKey(r, call.sortBy))

C8_Witness ==
  /\ call.op = "sort"
  /\ call.sortBy = "date"
  /\ call.sortOrder = "desc"
  /\ Len(call.data) = 3
  /\ call.data[1].date = <<"9">>
  /\ call.data[2].date = <<"1", "0">>
  /\ call.data[3].date = <<"0", "9">>
  /\ ret.items = <<call.data[2], call.data[1], call.data[3]>>

\* a comes no later than b in the order asked for.
InOrder(a, b, sortBy, sortOrder) ==
  LET ka == SortKey(a, sortBy)
      kb == SortKey(b, sortBy)
      le == IF sortBy = "customerName" THEN localeCompare(ka, kb) <= 0
            ELSE ka[1] <= kb[1]
      ge == IF sortBy = "customerName" THEN localeCompare(ka, kb) >= 0
            ELSE ka[1] >= kb[1]
  IN IF sortOrder = "asc" THEN le ELSE ge

\* C9: the result is a permutation of the input with every adjacent pair in
\* the order asked for.
C9_SortOrdered ==
  SupportedSort =>
    /\ Len(ret.items) = Len(call.data)
    /\ \A r \in SortRecords : Count(ret.items, r) = Count(call.data, r)
    /\ \A i \in 1..(Len(ret.items) - 1) :
         InOrder(ret.items[i], ret.items[i + 1], call.sortBy, call.sortOrder)

C9_Witness ==
  /\ call.op = "sort"
  /\ call.sortBy = "quantity"
  /\ call.sortOrder = "asc"
  /\ Len(call.data) = 3
  /\ call.data[1].quantity = 2
  /\ call.data[2].quantity = UndefinedNum
  /\ call.data[3].quantity = 1
  /\ ret.items = <<call.data[2], call.data[3], call.data[1]>>

(***************************************************************************)
(* TransactionService (array backend)                                      *)
(***************************************************************************)
\* A truthy number: neither undefined nor 0.
Truthy(n) == n # UndefinedNum /\ n # 0

\* Array.prototype.reduce adding up the terms a holds.
RECURSIVE Sum(_)
Sum(a) == IF a = <<>> THEN 0 ELSE Head(a) + Sum(Tail(a))

calculateAggregateStatsMutant(d) ==
  IF d = <<>>
  THEN [totalUnits |-> 0, totalAmount |-> 0, totalDiscount |-> 0, recordCount |-> 0]
  ELSE
    [totalUnits |-> Sum([i \in DOMAIN d |-> OrZero(d[i].quantity)]),
     totalAmount |-> Sum([i \in DOMAIN d |->
                            IF Truthy(d[i].finalAmount) THEN d[i].finalAmount
                            ELSE OrZero(d[i].totalAmount)]),
     totalDiscount |-> Sum([i \in DOMAIN d |->
                              OrZero(d[i].totalAmount) - OrZero(d[i].finalAmount)]),
     recordCount |-> Len(d)]

calculateAggregateStats(d) ==
  IF d = <<>>
  THEN [totalUnits |-> 0, totalAmount |-> 0, totalDiscount |-> 0, recordCount |-> 0]
  ELSE
    [totalUnits |-> Sum([i \in DOMAIN d |-> OrZero(d[i].quantity)]),
     totalAmount |-> Sum([i \in DOMAIN d |->
                            IF Truthy(d[i].totalAmount) THEN d[i].totalAmount
                            ELSE OrZero(d[i].finalAmount)]),
     totalDiscount |-> Sum([i \in DOMAIN d |->
                              OrZero(d[i].totalAmount) - OrZero(d[i].finalAmount)]),
     recordCount |-> Len(d)]

\* A parameter left undefined takes its default.
Default(v, dflt) == IF v.t = "undefined" THEN dflt ELSE v

\* TransactionService.getTransactions on the cached snapshot.
getTransactionsMutant(cache, params) ==
  IF cache.ref = 0 THEN [t |-> "error"]
  ELSE
    LET search == Default(params.search, JsStr(<<>>))
        page == Default(params.page, JsNum(1))
        pageSize == Default(params.pageSize, JsNum(10))
        found == searchTransactions(cache.items, search)
        filtered == applyFilters(found, params.filters)
        sorted == sortTransactions(filtered, params.sortBy, params.sortOrder)
        result == paginate(sorted, page, pageSize)
    IN [t |-> "ok", items |-> result.items, pagination |-> result.pagination,
        aggregateStats |-> calculateAggregateStats(result.items)]

getTransactions(cache, params) ==
  IF cache.ref = 0 THEN [t |-> "error"]
  ELSE
    LET search == Default(params.search, JsStr(<<>>))
        page == Default(params.page, JsNum(1))
        pageSize == Default(params.pageSize, JsNum(10))
        found == searchTransactions(cache.items, search)
        filtered == applyFilters(found, params.filters)
        aggregateStats == calculateAggregateStats(filtered)
        sorted == sortTransactions(filtered, params.sortBy, params.sortOrder)
        result == paginate(sorted, page, pageSize)
    IN [t |-> "ok", items |-> result.items, pagination |-> result.pagination,
        aggregateStats |-> aggregateStats]

\* The cache once getTransactions has returned.  The array handed to
\* sortTransactions is the cached array itself when search and filters both
\* returned what they were given.
getTransactionsLeaves(cache, params) ==
  IF cache.ref = 0 THEN cache
  ELSE
    LET search == Default(params.search, JsStr(<<>>))
        found == searchTransactions(cache.items, search)
        filtered == applyFilters(found, params.filters)
    IN IF searchReturnsData(search) /\ applyFiltersReturnsData(params.filters)
       THEN [cache EXCEPT !.items =
               sortTransactionsLeaves(filtered, params.sortBy, params.sortOrder)]
       ELSE cache

\* TransactionService.getFilterOptions on the cached snapshot.
getFilterOptionsMutant(cache, params) ==
  LET search == Default(params.search, JsStr(<<>>))
  IN [t |-> "options"] @@
     filterOptions(IF Falsy(search) THEN cache.items
                   ELSE searchTransactions(cache.items, search))

getFilterOptions(cache, params) ==
  IF cache.ref = 0 THEN [t |-> "error"]
  ELSE
    LET search == Default(params.search, JsStr(<<>>))
    IN [t |-> "options"] @@
       filterOptions(IF Falsy(search) THEN cache.items
                     ELSE searchTransactions(cache.items, search))

(***************************************************************************)
(* TransactionServiceMongo (indexed backend)                               *)
(***************************************************************************)
\* DataImporter.parseTransaction: the document stored for a CSV row.  The
\* date is stored as a timestamp.
importTransaction(row, clock) ==
  [transactionId |-> row.transactionId,
   customerId |-> row.customerId,
   customerName |-> row.customerName,
   phoneNumber |-> row.phoneNumber,
   gender |-> row.gender,
   age |-> parseNumber(row.age),
   customerRegion |-> row.customerRegion,
   productCategory |-> row.productCategory,
   tags |-> parseTags(row.tags),
   quantity |-> parseNumber(row.quantity),
   totalAmount |-> parseNumber(row.totalAmount),
   finalAmount |-> parseNumber(row.finalAmount),
   date |-> IF row.date.k = "num" THEN row.date.n ELSE clock,
   paymentMethod |-> row.paymentMethod]

\* The query object of buildFilterQuery: a condition that is not set is
\* Undefined (lists) or UndefinedNum (bounds).
buildFilterQuery(filters) ==
  LET in(l) == IF Given(l) THEN l ELSE Undefined
      age == filters.ageRange
      dates == filters.dateRange
      start == IF dates.has THEN OrEmpty(dates.start) ELSE <<>>
      end == IF dates.has THEN OrEmpty(dates.end) ELSE <<>>
  IN [customerRegion |-> in(filters.customerRegion),
      gender |-> in(filters.gender),
      ageGte |-> IF age.has /\ age.min # UndefinedNum /\ age.min > 0
                 THEN age.min ELSE UndefinedNum,
      ageLte |-> IF age.has /\ age.max # UndefinedNum /\ age.max < 100
                 THEN age.max ELSE UndefinedNum,
      productCategory |-> in(filters.productCategory),
      tags |-> in(filters.tags),
      paymentMethod |-> in(filters.paymentMethod),
      dateGte |-> IF start # <<>> THEN DateParse(start) ELSE UndefinedNum,
      dateLte |-> IF end # <<>> THEN DateParse(end) ELSE UndefinedNum]

\* The pattern of buildSearchQuery: Undefined stands for the empty query.
buildSearchQuery(searchTerm) ==
  IF Falsy(searchTerm) \/ trim(searchTerm.s) = <<>> THEN Undefined
  ELSE trim(searchTerm.s)

\* { $regex: term, $options: 'i' }: the pattern occurs somewhere in s,
\* letters matched without regard to case, "." matching any character.
RegexMatches(term, s) ==
  \E i \in 0..(Len(s) - Len(term)) :
    \A j \in 1..Len(term) :
      term[j] = "." \/ LowerChar(term[j]) = LowerChar(s[i + j])

\* A document matches the $or of buildSearchQuery.  productName is not a
\* field of the schema and never matches.
MatchesSearch(doc, term) ==
  \/ RegexMatches(term, doc.customerName)
  \/ RegexMatches(term, doc.phoneNumber)
  \/ RegexMatches(term, doc.customerId)
  \/ RegexMatches(term, doc.transactionId)

\* A document matches the query object of buildFilterQuery.
MatchesFilter(doc, q) ==
  /\ q.customerRegion # Undefined => InList(q.customerRegion, doc.customerRegion)
  /\ q.gender # Undefined => InList(q.gender, doc.gender)
  /\ q.ageGte # UndefinedNum => doc.age >= q.ageGte
  /\ q.ageLte # UndefinedNum => doc.age <= q.ageLte
  /\ q.productCategory # Undefined => InList(q.productCategory, doc.productCategory)
  /\ q.tags # Undefined => \E i \in 1..Len(doc.tags) : InList(q.tags, doc.tags[i])
  /\ q.paymentMethod # Undefined => InList(q.paymentMethod, doc.paymentMethod)
  /\ q.dateGte # UndefinedNum => doc.date >= q.dateGte
  /\ q.dateLte # UndefinedNum => doc.date <= q.dateLte

\* combinedQuery: { $and: [filterQuery, searchQuery] } when search is
\* truthy, filterQuery alone otherwise.
MatchesCombined(doc, params) ==
  LET search == Default(params.search, JsStr(<<>>))
      searchQuery == buildSearchQuery(search)
  IN /\ MatchesFilter(doc, buildFilterQuery(params.filters))
     /\ (~Falsy(search) /\ searchQuery # Undefined) => MatchesSearch(doc, searchQuery)

\* $sum over { $subtract: [a, b] }: the difference is null when a field is
\* missing, and $sum leaves out what is not a number.
subtract(a, b) == IF a = UndefinedNum \/ b = UndefinedNum THEN 0 ELSE a - b

\* Transaction.getAggregateStats: the $group over the matching documents;
\* $sum counts a missing field as nothing.
getAggregateStats(docs) ==
  IF docs = <<>>
  THEN [totalUnits |-> 0, totalAmount |-> 0, totalDiscount |-> 0, recordCount |-> 0]
  ELSE [totalUnits |-> Sum([i \in DOMAIN docs |-> OrZero(docs[i].quantity)]),
        totalAmount |-> Sum([i \in DOMAIN docs |-> OrZero(docs[i].totalAmount)]),
        totalDiscount |-> Sum([i \in DOMAIN docs |-> subtract(docs[i].totalAmount,
                                                              docs[i].finalAmount)]),
        recordCount |-> Len(docs)]

\* buildSortQuery and the store's ordering by it: negative, zero, positive.
\* Strings are compared by code point (no collation is set).
mongoCompare(a, b, sortBy, sortOrder) ==
  LET c == CASE sortBy = "customerName" ->
                  codePointCompare(a.customerName, b.customerName)
             [] sortBy = "date" -> a.date - b.date
             [] sortBy = "quantity" -> a.quantity - b.quantity
  IN IF sortOrder = "asc" THEN c ELSE 0 - c

Orderings(n) == {p \in [1..n -> 1..n] : \A i, j \in 1..n : p[i] = p[j] => i = j}

\* find(query).sort(sort): every order of the matching documents that
\* respects the sort key; documents with equal keys come in any order.
MongoSorted(docs, sortBy, sortOrder) ==
  {[i \in 1..Len(docs) |-> docs[p[i]]] : p \in
     {q \in Orderings(Len(docs)) :
        \A i \in 1..(Len(docs) - 1) :
          mongoCompare(docs[q[i]], docs[q[i + 1]], sortBy, sortOrder) <= 0}}

\* item.date.toISOString().split('T')[0]: the date without the time of day
\* (the leading digit of the two-digit timestamp).
formatDay(n) == <<Digits[(n \div 10) + 1]>>

\* What TransactionServiceMongo.getTransactions returns, given the order in
\* which the store delivered the matching documents.
mongoResult(ordered, params) ==
  LET page == Default(params.page, JsNum(1)).n
      pageSize == Default(params.pageSize, JsNum(10)).n
      aggregateStats == getAggregateStats(ordered)
      totalItems == aggregateStats.recordCount
      totalPages == Ceil(totalItems, pageSize)
      skip == (page - 1) * pageSize
      items == SubSeq(ordered, skip + 1, Min(skip + pageSize, Len(ordered)))
  IN [t |-> "ok",
      items |-> [i \in 1..Len(items) |-> [items[i] EXCEPT !.date = formatDay(@)]],
      pagination |-> [currentPage |-> page, pageSize |-> pageSize,
                      totalItems |-> totalItems, totalPages |-> totalPages,
                      hasNextPage |-> page < totalPages,
                      hasPreviousPage |-> page > 1],
      aggregateStats |-> aggregateStats]

(***************************************************************************)
(* The two backends over one dataset                                       *)
(***************************************************************************)
EngineRows ==
  {[transactionId |-> <<"1">>, customerId |-> <<"j", "1">>,
    customerName |-> <<"A", "b">>, phoneNumber |-> <<"1", "2">>,
    gender |-> "Male", age |-> Cell(25), customerRegion |-> "North",
    productCategory |-> "Electronics", tags |-> <<"t1", "">>,
    quantity |-> Cell(2), totalAmount |-> Cell(10), finalAmount |-> Cell(8),
    date |-> Cell(9), paymentMethod |-> "Card"],
   [transactionId |-> <<"2">>, customerId |-> <<"j", "2">>,
    customerName |-> <<"a", "b">>, phoneNumber |-> <<"2", "1">>,
    gender |-> "Female", age |-> Cell(30), customerRegion |-> "South",
    productCategory |-> "Clothing", tags |-> <<"t1", "t2">>,
    quantity |-> Cell(2), totalAmount |-> Cell(5), finalAmount |-> Cell(5),
    date |-> Cell(9), paymentMethod |-> "Cash"],
   [transactionId |-> <<"3">>, customerId |-> <<"j", "3">>,
    customerName |-> <<"B">>, phoneNumber |-> <<>>,
    gender |-> "Female", age |-> Cell(35), customerRegion |-> "North",
    productCategory |-> "Clothing", tags |-> <<>>,
    quantity |-> EmptyCell, totalAmount |-> Cell(4), finalAmount |-> EmptyCell,
    date |-> Cell(10), paymentMethod |-> "Cash"],
   [transactionId |-> <<"4">>, customerId |-> <<"j", "4">>,
    customerName |-> <<"J", "a">>, phoneNumber |-> <<"1", "1">>,
    gender |-> "Male", age |-> Cell(30), customerRegion |-> "South",
    productCategory |-> "Electronics", tags |-> <<"t2">>,
    quantity |-> Cell(1), totalAmount |-> Cell(6), finalAmount |-> Cell(3),
    date |-> Cell(5), paymentMethod |-> "Card"]}

\* Files whose rows have distinct transaction ids.
EngineFiles ==
  {f \in SeqsUpTo(EngineRows, MaxRows) : \A i, j \in 1..Len(f) : f[i] = f[j] => i = j}

NoFilters ==
  [t |-> "object", customerRegion |-> Undefined, gender |-> Undefined,
   ageRange |-> NoRange, productCategory |-> Undefined, tags |-> Undefined,
   paymentMethod |-> Undefined, dateRange |-> NoDates]

EngineFilters ==
  {NoFilters,
   [NoFilters EXCEPT !.gender = <<"Female">>, !.tags = <<"t2", "t3">>],
   [NoFilters EXCEPT !.ageRange = [has |-> TRUE, min |-> 30, max |-> UndefinedNum],
                     !.dateRange = [has |-> TRUE, start |-> <<>>, end |-> <<"9">>]]}

EngineSearches == {JsUndefined, JsStr(<<"A", " ">>), JsStr(<<"1">>)}

EngineSorts ==
  {<<"date", "desc">>, <<"quantity", "asc">>, <<"customerName", "asc">>}

\* page and pageSize: the defaults, and single-record pages.
EnginePaging ==
  {<<JsUndefined, JsUndefined>>, <<JsNum(1), JsNum(1)>>, <<JsNum(2), JsNum(1)>>}

Requests ==
  {[search |-> se, filters |-> fi, sortBy |-> so[1], sortOrder |-> so[2],
    page |-> pg[1], pageSize |-> pg[2]] :
     se \in EngineSearches, fi \in EngineFilters, so \in EngineSorts,
     pg \in EnginePaging}

\* The loader has read the file into its cache; the collection holds the
\* documents imported from the same file.
InitEngine ==
  /\ file \in EngineFiles
  /\ fileExists = TRUE
  /\ now = 0
  /\ data = [ref |-> 1, items |-> [i \in 1..Len(file) |-> parseTransaction(file[i], 0)]]
  /\ isLoaded = TRUE
  /\ loads = [c \in Callers |-> IdleLoad]
  /\ fileReads = 1
  /\ collection = [i \in 1..Len(file) |-> importTransaction(file[i], 0)]
  /\ EngineIdle
  /\ StagesIdle
  /\ ClientIdle
  /\ ImporterIdle
  /\ clearedAt = 0

\* transactionService.getTransactions(params)
ArrayGetTransactions(params) ==
  /\ req' = params
  /\ resArray' = getTransactions(getData, params)
  /\ data' = getTransactionsLeaves(getData, params)
  /\ resMongo' = IF params = req THEN resMongo ELSE None
  /\ UNCHANGED <<clientVars, importer, clearedAt, file, fileExists, isLoaded,
                 loads,
                 fileReads, now, collection,
                 stageVars>>

\* transactionServiceMongo.getTransactions(params)
MongoGetTransactions(params) ==
  /\ req' = params
  /\ \E ordered \in MongoSorted(
          SelectSeq(collection, LAMBDA doc : MatchesCombined(doc, params)),
          params.sortBy, params.sortOrder) :
        resMongo' = mongoResult(ordered, params)
  /\ resArray' = IF params = req THEN resArray ELSE None
  /\ UNCHANGED <<clientVars, importer, clearedAt, loaderVars, now, collection,
                 stageVars>>

NextEngine ==
  \/ \E params \in Requests : ArrayGetTransactions(params)
  \/ \E params \in Requests : MongoGetTransactions(params)

SpecEngine == InitEngine /\ [][NextEngine]_vars

\* The records of a page, named by their customer ids.
Ids(items) == [i \in 1..Len(items) |-> items[i].customerId]

\* C1: for one dataset and one request the two backends return the same
\* records in the same order, and the same aggregateStats, totalItems and
\* totalPages.
C1_BackendsAgree ==
  (resArray.t = "ok" /\ resMongo.t = "ok") =>
    /\ Ids(resArray.items) = Ids(resMongo.items)
    /\ resArray.aggregateStats = resMongo.aggregateStats
    /\ resArray.pagination.totalItems = resMongo.pagination.totalItems
    /\ resArray.pagination.totalPages = resMongo.pagination.totalPages

\* Two requests with the same search term and the same filters.
SameQuery(a, b) == a # None /\ b # None /\ a.search = b.search /\ a.filters = b.filters

\* C2: while search and filters stay the same, aggregateStats stay the same
\* from one request to the next, whatever the page, page size and sorting.
C2_StatsIndependentOfPaging ==
  [][/\ (SameQuery(req, req') /\ resArray.t = "ok" /\ resArray'.t = "ok")
          => resArray'.aggregateStats = resArray.aggregateStats
     /\ (SameQuery(req, req') /\ resMongo.t = "ok" /\ resMongo'.t = "ok")
          => resMongo'.aggregateStats = resMongo.aggregateStats]_vars

\* Both backends have answered a request for a one-record page out of
\* several matching records, with statistics over all of them.
C2_Witness ==
  /\ resArray.t = "ok"
  /\ resMongo.t = "ok"
  /\ req.pageSize = JsNum(1)
  /\ req.page = JsNum(2)
  /\ req.filters # NoFilters
  /\ Len(resArray.items) = 1
  /\ resArray.aggregateStats.recordCount = 2
  /\ resMongo.aggregateStats.recordCount = 2
  /\ resArray.aggregateStats.totalUnits > OrZero(resArray.items[1].quantity)

(***************************************************************************)
(* Concurrent loads of the CSV file                                        *)
(***************************************************************************)
BaseRow ==
  [transactionId |-> <<"1">>, customerId |-> <<"j", "1">>,
   customerName |-> <<"A", "b">>, phoneNumber |-> <<"1", "2">>,
   gender |-> "Male", age |-> Cell(25), customerRegion |-> "North",
   productCategory |-> "Electronics", tags |-> <<"t1", "">>,
   quantity |-> Cell(2), totalAmount |-> Cell(10), finalAmount |-> Cell(8),
   date |-> Cell(9), paymentMethod |-> "Card"]

LoaderRows ==
  {BaseRow,
   [BaseRow EXCEPT !.date = EmptyCell, !.quantity = TextCell],
   [BaseRow EXCEPT !.date = TextCell, !.age = EmptyCell]}

LoaderFiles == SeqsUpTo(LoaderRows, MaxRows)

\* The state after construction of the DataLoader singleton.
InitLoad ==
  /\ file \in LoaderFiles
  /\ fileExists \in BOOLEAN
  /\ collection = <<>>
  /\ LoaderIdle
  /\ EngineIdle
  /\ StagesIdle
  /\ ClientIdle
  /\ ImporterIdle
  /\ clearedAt = 0

NextLoad ==
  \E c \in Callers :
    \/ LoadDataCall(c)
    \/ OnData(c)
    \/ OnEnd(c)
    \/ OnError(c)
    \/ Settle(c)

SpecLoad == InitLoad /\ [][NextLoad]_vars

\* C4: calls made while a load is in flight do not start a second read of
\* the file, and all callers are handed the same snapshot.
C4_SingleRead ==
  /\ Cardinality({c \in Callers : loads[c].pc = "reading"}) <= 1
  /\ \A c1, c2 \in Callers :
       (loads[c1].pc = "resolved" /\ loads[c2].pc = "resolved")
         => loads[c1].got = loads[c2].got

(***************************************************************************)
(* Aggregate statistics on their own                                       *)
(***************************************************************************)
\* Records whose amounts may be missing; a final amount, where both are
\* there, is the total less a discount and so never above it.
StatsRecords ==
  {r \in [quantity : {UndefinedNum, 0, 2},
          totalAmount : {UndefinedNum, 0, 5},
          finalAmount : {UndefinedNum, 0, 4}] :
     (r.totalAmount # UndefinedNum /\ r.finalAmount # UndefinedNum)
       => r.finalAmount <= r.totalAmount}

StatsArrays == SeqsUpTo(StatsRecords, MaxLen)

InitStats ==
  /\ call \in {[op |-> "none", data |-> d] : d \in StatsArrays}
  /\ ret = None
  /\ walk = IdleWalk
  /\ ClientIdle
  /\ ImporterIdle
  /\ clearedAt = 0
  /\ file = <<>>
  /\ fileExists = TRUE
  /\ collection = <<>>
  /\ LoaderIdle
  /\ EngineIdle

\* transactionService.calculateAggregateStats(call.data), once per array.
CalculateAggregateStats ==
  /\ call.op = "none"
  /\ call' = [op |-> "calculateAggregateStats", data |-> call.data]
  /\ ret' = calculateAggregateStats(call.data)
  /\ UNCHANGED <<clientVars, importer, clearedAt, loaderVars, now, engineVars,
                 walk>>

\* Transaction.getAggregateStats over the documents call.data, which hold
\* the fields the schema requires.
GetAggregateStats ==
  /\ call.op = "none"
  /\ \A i \in DOMAIN call.data :
       call.data[i].quantity # UndefinedNum /\ call.data[i].totalAmount # UndefinedNum
  /\ call' = [op |-> "getAggregateStats", data |-> call.data]
  /\ ret' = getAggregateStats(call.data)
  /\ UNCHANGED <<clientVars, importer, clearedAt, loaderVars, now, engineVars,
                 walk>>

NextStats ==
  \/ CalculateAggregateStats
  \/ GetAggregateStats

SpecStats == InitStats /\ [][NextStats]_vars

\* A field that is there.
Has(n) == n # UndefinedNum

C14_MissingFinalNoDiscount ==
  call.op \in {"calculateAggregateStats", "getAggregateStats"} =>
    ret.totalDiscount =
      Sum([i \in DOMAIN call.data |->
             IF Has(call.data[i].finalAmount)
             THEN OrZero(call.data[i].totalAmount) - call.data[i].finalAmount
             ELSE 0])

(***************************************************************************)
(* validators and the validation middleware                                *)
(***************************************************************************)
\* A query parameter the request does not carry.
AbsentParam == "undefined"

\* A parameter that is absent takes its default.
DefaultParam(v, dflt) == IF v = AbsentParam THEN dflt ELSE v

\* validatePagination: the errors found in page and pageSize.
validatePagination(page, pageSize) ==
  (IF page.t # "undefined" /\ (parseInt(page).t = "nan" \/ parseInt(page).n < 1)
   THEN <<"Page number must be a positive integer">> ELSE <<>>)
  \o
  (IF pageSize.t # "undefined"
      /\ (parseInt(pageSize).t = "nan" \/ parseInt(pageSize).n < 1
          \/ parseInt(pageSize).n > 100)
   THEN <<"Page size must be between 1 and 100">> ELSE <<>>)

\* validateSort: the errors found in sortBy and sortOrder.
validateSort(sortBy, sortOrder) ==
  (IF sortBy # AbsentParam /\ sortBy \notin {"date", "quantity", "customerName"}
   THEN <<"Invalid sortBy field. Must be one of: date, quantity, customerName">> ELSE <<>>)
  \o
  (IF sortOrder # AbsentParam /\ sortOrder \notin {"asc", "desc"}
   THEN <<"Invalid sortOrder. Must be one of: asc, desc">> ELSE <<>>)

\* validateFilters: the errors found in ageRange and dateRange.  Ages and
\* dates are naturals here, so the checks for a negative or unparsable
\* bound find nothing.
validateFilters(filters) ==
  (IF filters.ageRange.has
      /\ filters.ageRange.min # UndefinedNum /\ filters.ageRange.max # UndefinedNum
      /\ filters.ageRange.min > filters.ageRange.max
   THEN <<"Age range min cannot be greater than max">> ELSE <<>>)
  \o
  (IF filters.dateRange.has
      /\ OrEmpty(filters.dateRange.start) # <<>> /\ OrEmpty(filters.dateRange.end) # <<>>
      /\ DateParse(filters.dateRange.start) > DateParse(filters.dateRange.end)
   THEN <<"Start date cannot be after end date">> ELSE <<>>)

ValidationError(message, errors) ==
  [t |-> "ValidationError", message |-> message, errors |-> errors]

\* next() called without an argument.
NoError == [t |-> "undefined"]

\* validateTransactionQuery: the argument it hands to next.  The first
\* group of parameters found invalid throws; search is not looked at.
validateTransactionQueryMutant(query) ==
  LET paginationValidation == validatePagination(query.page, query.pageSize)
  IN IF paginationValidation # <<>>
     THEN ValidationError("Invalid pagination parameters", paginationValidation)
     ELSE IF query.filters.t = "undefined" THEN NoError
     ELSE IF query.filters.t = "malformed"
     THEN ValidationError("Invalid filter format. Must be valid JSON", <<>>)
     ELSE IF validateFilters(query.filters) # <<>>
     THEN ValidationError("Invalid filter parameters", validateFilters(query.filters))
     ELSE NoError

validateTransactionQuery(query) ==
  LET paginationValidation == validatePagination(query.page, query.pageSize)
      sortValidation == validateSort(query.sortBy, query.sortOrder)
  IN IF paginationValidation # <<>>
     THEN ValidationError("Invalid pagination parameters", paginationValidation)
     ELSE IF sortValidation # <<>>
     THEN ValidationError("Invalid sort parameters", sortValidation)
     ELSE IF query.filters.t = "undefined" THEN NoError
     ELSE IF query.filters.t = "malformed"
     THEN ValidationError("Invalid filter format. Must be valid JSON", <<>>)
     ELSE IF validateFilters(query.filters) # <<>>
     THEN ValidationError("Invalid filter parameters", validateFilters(query.filters))
     ELSE NoError

\* The longest search term isValidSearchTerm accepts.
MaxSearchTermLength == 100

\* SearchService.isValidSearchTerm
isValidSearchTerm(searchTerm) ==
  IF searchTerm.t \in {"null", "undefined"} THEN TRUE
  ELSE IF searchTerm.t # "string" THEN FALSE
  ELSE Len(trim(searchTerm.s)) <= MaxSearchTermLength

(***************************************************************************)
(* GET /api/transactions: middleware, controller, indexed backend          *)
(***************************************************************************)
\* TransactionServiceMongo.getTransactions when the store may fail.  fail
\* names the store query that rejects ("none" when both succeed); queries
\* counts the store queries issued.  The aggregation is awaited before the
\* find is issued, and the catch block rethrows.
mongoGetTransactionsMutant(ordered, params, fail) ==
  IF fail = "aggregate" THEN [t |-> "error", queries |-> 1]
  ELSE IF fail = "find"
  THEN [mongoResult(<<>>, params) EXCEPT !.aggregateStats = getAggregateStats(ordered)]
         @@ [queries |-> 2]
  ELSE mongoResult(ordered, params) @@ [queries |-> 2]

mongoGetTransactions(ordered, params, fail) ==
  IF fail = "aggregate" THEN [t |-> "error", queries |-> 1]
  ELSE IF fail = "find" THEN [t |-> "error", queries |-> 2]
  ELSE mongoResult(ordered, params) @@ [queries |-> 2]

\* page ? parseInt(page) : undefined
controllerParseInt(v) ==
  IF Falsy(v) THEN JsUndefined ELSE parseInt(v)

\* The params the controller hands to the query service.
controllerParams(query) ==
  [search |-> query.search,
   filters |-> IF query.filters.t = "object" THEN query.filters ELSE NoFilters,
   sortBy |-> DefaultParam(query.sortBy, "date"),
   sortOrder |-> DefaultParam(query.sortOrder, "desc"),
   page |-> controllerParseInt(query.page),
   pageSize |-> controllerParseInt(query.pageSize)]

StoreFailures == {"none", "aggregate", "find"}

HttpFiles ==
  {f \in EngineFiles : Len(f) = 2 /\ f[1].transactionId = <<"1">>}

\* A search term of n characters.
LongTerm(n) == [i \in 1..n |-> "a"]

HttpPages == {JsUndefined, JsStr(<<"2">>), JsStr(<<"0">>), JsStr(<<"a">>)}

HttpPageSizes == {JsUndefined, JsStr(<<"1">>), JsStr(<<"1", "0", "1">>)}

HttpSortFields == {AbsentParam, "customerName", "age"}

HttpSortOrders == {AbsentParam, "asc", "up"}

HttpFilters ==
  {[t |-> "undefined"], [t |-> "malformed"],
   [NoFilters EXCEPT !.ageRange = [has |-> TRUE, min |-> 25, max |-> 30]],
   [NoFilters EXCEPT !.ageRange = [has |-> TRUE, min |-> 40, max |-> 30]],
   [NoFilters EXCEPT !.ageRange = [has |-> TRUE, min |-> 40, max |-> 30],
                     !.dateRange = [has |-> TRUE, start |-> <<"1", "0">>,
                                    end |-> <<"9">>]]}

HttpSearches ==
  {JsUndefined, JsStr(<<"a">>),
   JsStr(<<" ">> \o LongTerm(MaxSearchTermLength + 1))}

HttpQueries ==
  [t : {"query"}, page : HttpPages, pageSize : HttpPageSizes,
   sortBy : HttpSortFields, sortOrder : HttpSortOrders,
   filters : HttpFilters, search : HttpSearches]

\* A request has arrived; the collection holds the imported documents.
InitHttp ==
  /\ file \in HttpFiles
  /\ fileExists = TRUE
  /\ collection = [i \in 1..Len(file) |-> importTransaction(file[i], 0)]
  /\ LoaderIdle
  /\ req \in HttpQueries
  /\ resArray = None
  /\ resMongo = None
  /\ StagesIdle
  /\ ClientIdle
  /\ ImporterIdle
  /\ clearedAt = 0

\* The middleware runs on req.query and calls next with its verdict.
\* call.next lists the arguments of the calls of next so far, call.service
\* counts the calls of the query service.
ValidateTransactionQuery ==
  /\ call.op = "none"
  /\ call' = [op |-> "validateTransactionQuery", data |-> <<>>,
              next |-> <<validateTransactionQuery(req)>>, service |-> 0,
              fail |-> "none"]
  /\ UNCHANGED <<clientVars, importer, clearedAt, loaderVars, now, engineVars,
                 ret, walk>>

\* The controller, which next() runs when the middleware passed no error:
\* it answers with res.json or passes the error on.
GetTransactions(fail) ==
  LET params == controllerParams(req) IN
  /\ call.op = "validateTransactionQuery"
  /\ call.next = <<NoError>>
  /\ call' = [call EXCEPT !.op = "getTransactions", !.service = @ + 1,
                          !.fail = fail]
  /\ \E ordered \in MongoSorted(
          SelectSeq(collection, LAMBDA doc : MatchesCombined(doc, params)),
          params.sortBy, params.sortOrder) :
        /\ resMongo' = mongoGetTransactions(ordered, params, fail)
        /\ ret' = IF resMongo'.t = "ok"
                  THEN [t |-> "json", success |-> TRUE, data |-> resMongo']
                  ELSE [t |-> "next", error |-> resMongo']
  /\ UNCHANGED <<clientVars, importer, clearedAt, loaderVars, now, collection,
                 req,
                 resArray, walk>>

NextHttp ==
  \/ ValidateTransactionQuery
  \/ \E fail \in StoreFailures : GetTransactions(fail)

SpecHttp == InitHttp /\ [][NextHttp]_vars

\* The messages in a sequence of errors.
Messages(errors) == {errors[i] : i \in DOMAIN errors}

\* Every violation the validators find in a query.
Violations(query) ==
  Messages(validatePagination(query.page, query.pageSize))
    \cup Messages(validateSort(query.sortBy, query.sortOrder))
    \cup (IF query.filters.t = "object"
          THEN Messages(validateFilters(query.filters)) ELSE {})

\* The middleware has run and handed an error to next.
Rejected ==
  /\ call.op # "none"
  /\ Len(call.next) = 1
  /\ call.next[1].t = "ValidationError"

\* C15: the ValidationError of a rejected request lists every violation of
\* the request, not only the first one found.
C15_AllViolationsReported ==
  Rejected => Violations(req) \subseteq Messages(call.next[1].errors)

\* page is given and is not a number of at least 1.
BadPage(query) ==
  /\ query.page.t # "undefined"
  /\ NonNumeric(query.page) \/ Negative(query.page) \/ Denotes(query.page, 0)

\* pageSize is given and is not a number in 1..100.
BadPageSize(query) ==
  /\ query.pageSize.t # "undefined"
  /\ ~\E k \in 1..MAX_PAGE_SIZE : Denotes(query.pageSize, k)

\* sortBy or sortOrder is given and is not one of the supported values.
BadSort(query) ==
  \/ query.sortBy \notin {AbsentParam, "date", "quantity", "customerName"}
  \/ query.sortOrder \notin {AbsentParam, "asc", "desc"}

\* The filters are well-formed and their ranges are not upside down.
GoodFilters(query) ==
  \/ query.filters.t = "undefined"
  \/ /\ query.filters.t = "object"
     /\ LET age == query.filters.ageRange
            dates == query.filters.dateRange
        IN /\ ~(age.has /\ age.min > age.max /\ age.max # UndefinedNum)
           /\ ~(dates.has /\ DateParse(dates.start) > DateParse(dates.end))

SearchTooLong(query) ==
  query.search.t = "string" /\ Len(trim(query.search.s)) > MaxSearchTermLength

\* C17: a request whose search term exceeds 100 characters after trimming
\* is rejected with a validation error and never reaches the query service.
C17_LongSearchRejected ==
  (call.op # "none" /\ SearchTooLong(req)) => (Rejected /\ call.service = 0)

\* C19: when a store query of getTransactions fails, the call fails at
\* once: the failed query is the last one issued, nothing is retried, and
\* the controller passes the error on without answering with a result.
C19_StoreFailureSurfaces ==
  (call.op = "getTransactions" /\ call.fail # "none") =>
    /\ resMongo.t = "error"
    /\ resMongo.queries = (IF call.fail = "aggregate" THEN 1 ELSE 2)
    /\ DOMAIN resMongo \cap {"items", "pagination", "aggregateStats"} = {}
    /\ ret.t = "next"
    /\ call.service = 1

C19_Witness ==
  /\ call.op = "getTransactions"
  /\ call.fail = "find"
  /\ resMongo.t = "error"
  /\ resMongo.queries = 2
  /\ ret.t = "next"
  /\ \E i \in DOMAIN collection : MatchesCombined(collection[i], controllerParams(req))

(***************************************************************************)
(* The array backend over the loader's cache                               *)
(***************************************************************************)
\* Requests that sort the whole cache, and one that searches it first.
CacheRequests ==
  {[search |-> JsUndefined, filters |-> NoFilters, sortBy |-> "quantity",
    sortOrder |-> "asc", page |-> JsUndefined, pageSize |-> JsUndefined],
   [search |-> JsStr(<<>>), filters |-> NoFilters, sortBy |-> "date",
    sortOrder |-> "desc", page |-> JsNum(1), pageSize |-> JsNum(1)],
   [search |-> JsStr(<<"a">>), filters |-> NoFilters, sortBy |-> "quantity",
    sortOrder |-> "asc", page |-> JsUndefined, pageSize |-> JsUndefined]}

\* transactionService.getFilterOptions(params)
ArrayGetFilterOptions(params) ==
  /\ req' = params
  /\ resArray' = getFilterOptions(getData, params)
  /\ resMongo' = IF params = req THEN resMongo ELSE None
  /\ UNCHANGED <<clientVars, importer, clearedAt, loaderVars, now, collection,
                 stageVars>>

\* One caller loads, reloads and clears the cache while queries come in.
NextCache ==
  \/ LoadDataCall(1)
  \/ OnData(1)
  \/ OnEnd(1)
  \/ OnError(1)
  \/ Settle(1)
  \/ ClearCache
  \/ \E params \in CacheRequests : ArrayGetTransactions(params)
  \/ \E params \in CacheRequests : ArrayGetFilterOptions(params)

SpecCache == InitLoad /\ [][NextCache]_vars

\* A query of the array backend has been answered in this step.
Answered == req' # req \/ resArray' # resArray

\* C18: a query answered while the cache is not populated (never loaded,
\* or cleared) fails with an error; it returns no page, statistics or
\* options.
C18_NotLoadedIsAnError ==
  [][(Answered /\ getData = NullData) => resArray'.t = "error"]_vars

C18_Witness ==
  /\ resArray.t = "error"
  /\ req \in CacheRequests
  /\ getData = NullData
  /\ ~isLoaded
  /\ loads[1].pc = "resolved"
  /\ Len(file) = 2

\* C20: answering a query leaves the cached snapshot as it was, the same
\* records in the same order, also when the array sortTransactions is given
\* is the cached array itself.
C20_QueriesReadOnly ==
  [][Answered => data' = data]_vars

C20_Witness ==
  /\ resArray.t = "ok"
  /\ searchReturnsData(Default(req.search, JsStr(<<>>)))
  /\ Len(getData.items) = 2
  /\ getData.items[1] # getData.items[2]
  /\ resArray.items = <<getData.items[2], getData.items[1]>>

(***************************************************************************)
(* Filter options of the two backends                                      *)
(***************************************************************************)
\* minAge || 0, maxAge || 100
OrDefault(n, dflt) == IF n = UndefinedNum \/ n = 0 THEN dflt ELSE n

\* TransactionServiceMongo.getFilterOptions: the distinct values of each
\* field over the documents matching the combined query, empty values
\* filtered out, and the range of their ages.
mongoGetFilterOptions(docs, params) ==
  LET m == SelectSeq(docs, LAMBDA doc : MatchesCombined(doc, params))
      ages == {m[i].age : i \in DOMAIN m}
  IN [t |-> "options",
      customerRegion |-> {m[i].customerRegion : i \in DOMAIN m} \ {""},
      gender |-> {m[i].gender : i \in DOMAIN m} \ {""},
      productCategory |-> {m[i].productCategory : i \in DOMAIN m} \ {""},
      tags |-> UNION {{m[i].tags[j] : j \in DOMAIN m[i].tags} : i \in DOMAIN m} \ {""},
      paymentMethod |-> {m[i].paymentMethod : i \in DOMAIN m} \ {""},
      ageRange |-> IF m = <<>> THEN [min |-> 0, max |-> 100]
                   ELSE [min |-> OrDefault(CHOOSE a \in ages : \A b \in ages : a <= b, 0),
                         max |-> OrDefault(CHOOSE a \in ages : \A b \in ages : a >= b, 100)]]

OptionRequests ==
  {[search |-> se, filters |-> fi] : se \in EngineSearches, fi \in EngineFilters}

\* transactionServiceMongo.getFilterOptions(params)
MongoGetFilterOptions(params) ==
  /\ req' = params
  /\ resMongo' = mongoGetFilterOptions(collection, params)
  /\ resArray' = IF params = req THEN resArray ELSE None
  /\ UNCHANGED <<clientVars, importer, clearedAt, loaderVars, now, collection,
                 stageVars>>

NextOptions ==
  \/ \E params \in OptionRequests : ArrayGetFilterOptions(params)
  \/ \E params \in OptionRequests : MongoGetFilterOptions(params)

SpecOptions == InitEngine /\ [][NextOptions]_vars

\* The cached records that match the request's search term and filters.
Matching(items, query) ==
  SelectSeq(items, LAMBDA r :
    /\ (query.search.t = "string" /\ ~Blank(query.search.s))
         => Kept(r, toLowerCase(Stripped(query.search.s)))
    /\ Satisfies(r, query.filters))

\* The distinct non-empty values the records hold, per filterable field.
Distinct(m) ==
  [regions |-> {m[i].customerRegion : i \in DOMAIN m} \ {""},
   genders |-> {m[i].gender : i \in DOMAIN m} \ {""},
   categories |-> {m[i].productCategory : i \in DOMAIN m} \ {""},
   tags |-> UNION {Elems(m[i].tags) : i \in DOMAIN m} \ {""},
   paymentMethods |-> {m[i].paymentMethod : i \in DOMAIN m} \ {""}]

\* C21: the filter options are the distinct, non-empty values per field of
\* exactly the records that match both the search term and the filters of
\* the request.
C21_OptionsOverMatches ==
  /\ resArray.t = "options" =>
       LET want == Distinct(Matching(getData.items, req))
       IN /\ resArray.regions = want.regions
          /\ resArray.genders = want.genders
          /\ resArray.categories = want.categories
          /\ resArray.tags = want.tags
          /\ resArray.paymentMethods = want.paymentMethods
  /\ resMongo.t = "options" =>
       LET want == Distinct(SelectSeq(collection,
                              LAMBDA doc : MatchesCombined(doc, req)))
       IN /\ resMongo.customerRegion = want.regions
          /\ resMongo.gender = want.genders
          /\ resMongo.productCategory = want.categories
          /\ resMongo.tags = want.tags
          /\ resMongo.paymentMethod = want.paymentMethods

(***************************************************************************)
(* Loading while time passes                                               *)
(***************************************************************************)
NextClock ==
  \/ NextLoad
  \/ Tick

SpecClock == InitLoad /\ [][NextClock]_vars

\* C22: two loads of the same file give every row the same date, whatever
\* the time at which each row was parsed.
C22_DatesIndependentOfClock ==
  \A c1, c2 \in Callers :
    \A i \in 1..Min(Len(loads[c1].results), Len(loads[c2].results)) :
      loads[c1].results[i].date = loads[c2].results[i].date

GetTransactionsAggregate(params) ==
  /\ call.op = "none"
  /\ req' = params
  /\ call' = [op |-> "aggregate", data |-> <<>>, queries |-> 1,
              cancelled |-> FALSE]
  /\ UNCHANGED <<clientVars, importer, clearedAt, loaderVars, now, collection,
                 resArray,
                 resMongo, ret, walk>>

\* The aggregation has resolved: the find is issued and awaited.
GetTransactionsFind ==
  /\ call.op = "aggregate"
  /\ call' = [call EXCEPT !.op = "find", !.queries = @ + 1]
  /\ UNCHANGED <<clientVars, importer, clearedAt, loaderVars, now, engineVars,
                 ret, walk>>

\* The find has resolved: the result is put together and returned.
GetTransactionsReturn ==
  /\ call.op = "find"
  /\ call' = [call EXCEPT !.op = "returned"]
  /\ \E ordered \in MongoSorted(
          SelectSeq(collection, LAMBDA doc : MatchesCombined(doc, req)),
          req.sortBy, req.sortOrder) :
        resMongo' = mongoResult(ordered, req)
  /\ UNCHANGED <<clientVars, importer, clearedAt, loaderVars, now, collection,
                 req,
                 resArray, ret, walk>>

\* The caller gives the query up while it is in flight.  getTransactions
\* takes no signal and registers no listener: nothing but the flag changes.
Cancel ==
  /\ call.op \in {"aggregate", "find"}
  /\ ~call.cancelled
  /\ call' = [call EXCEPT !.cancelled = TRUE]
  /\ UNCHANGED <<clientVars, importer, clearedAt, loaderVars, now, engineVars,
                 ret, walk>>

NextCancel ==
  \/ \E params \in Requests : GetTransactionsAggregate(params)
  \/ GetTransactionsFind
  \/ GetTransactionsReturn
  \/ Cancel

SpecCancel == InitEngine /\ [][NextCancel]_vars

\* C24: once the caller has cancelled a query, the engine issues no further
\* store query and does not go on to return a result.
C24_CancelStopsQuery ==
  [][(call.op \in {"aggregate", "find"} /\ call.cancelled)
       => (call'.queries = call.queries /\ call'.op # "returned"
           /\ resMongo' = resMongo)]_vars

(***************************************************************************)
(* The search translation of the indexed backend on its own                *)
(***************************************************************************)
\* The store compiles the $regex pattern before it runs the query: an
\* opening parenthesis that is never closed is not a pattern.
ValidPattern(term) == \A j \in 1..Len(term) : term[j] # "("

\* find(buildSearchQuery(searchTerm)) on the collection: the matching
\* documents, or the store's error for a pattern it cannot compile.
mongoSearch(docs, searchTerm) ==
  LET query == buildSearchQuery(searchTerm)
  IN IF query = Undefined THEN [t |-> "found", items |-> docs]
     ELSE IF ~ValidPattern(query) THEN [t |-> "error"]
     ELSE [t |-> "found",
           items |-> SelectSeq(docs, LAMBDA doc : MatchesSearch(doc, query))]

RegexNames == {<<"A", "b">>, <<"a", ".">>, <<"(", "1">>}

RegexPhones == {<<"1", "2">>, <<>>}

RegexDocs ==
  {[transactionId |-> <<"1">>, customerId |-> id, customerName |-> nm,
    phoneNumber |-> ph] :
     id \in {<<"j", "1">>, <<"j", ".">>}, nm \in RegexNames, ph \in RegexPhones}

RegexTerms ==
  {JsStr(s) : s \in SeqsUpTo({"a", "B", ".", "(", "1", " "}, MaxLen)}

InitRegex ==
  /\ collection \in {c \in SeqsUpTo(RegexDocs, MaxLen) : c # <<>>}
  /\ file = <<>>
  /\ fileExists = TRUE
  /\ LoaderIdle
  /\ EngineIdle
  /\ StagesIdle
  /\ ClientIdle
  /\ ImporterIdle
  /\ clearedAt = 0

\* The store is queried with the search query alone.
MongoSearch(searchTerm) ==
  /\ req' = [search |-> searchTerm]
  /\ resMongo' = mongoSearch(collection, searchTerm)
  /\ UNCHANGED <<clientVars, importer, clearedAt, loaderVars, now, collection,
                 resArray,
                 stageVars>>

NextRegex == \E searchTerm \in RegexTerms : MongoSearch(searchTerm)

SpecRegex == InitRegex /\ [][NextRegex]_vars

\* The term occurs in one of the searched fields, letter case apart, every
\* character standing for itself.
LiteralMatch(doc, term) ==
  \/ includes(toLowerCase(doc.customerName), toLowerCase(term))
  \/ includes(toLowerCase(doc.phoneNumber), toLowerCase(term))
  \/ includes(toLowerCase(doc.customerId), toLowerCase(term))
  \/ includes(toLowerCase(doc.transactionId), toLowerCase(term))

\* C25: the search query selects exactly the documents in which the trimmed
\* term occurs literally, letter case apart, in a name, phone or id field,
\* and the store query fails for no term.
C25_SearchIsLiteral ==
  resMongo # None =>
    /\ resMongo.t = "found"
    /\ resMongo.items =
         SelectSeq(collection, LAMBDA doc : LiteralMatch(doc, trim(req.search.s)))

(***************************************************************************)
(* The age range in the two backends                                       *)
(***************************************************************************)
AgeDocs == {[customerId |-> <<"j">>, age |-> a] : a \in {0, 30, 100, 120}}

AgeBounds == {UndefinedNum, 0, 30, 100, 150}

AgeQueries ==
  {NoRange} \cup
  {[has |-> TRUE, min |-> lo, max |-> hi] : lo \in AgeBounds, hi \in AgeBounds}

InitAge ==
  /\ collection \in SeqsUpTo(AgeDocs, MaxLen)
  /\ file = <<>>
  /\ fileExists = TRUE
  /\ LoaderIdle
  /\ EngineIdle
  /\ StagesIdle
  /\ ClientIdle
  /\ ImporterIdle
  /\ clearedAt = 0

\* The same records are selected by age in both backends: by find with the
\* query of buildFilterQuery, and by filterByAgeRange as applyFilters calls it.
FilterByAge(range) ==
  /\ req' = [ageRange |-> range]
  /\ resMongo' =
       [t |-> "aged",
        items |-> SelectSeq(collection, LAMBDA doc :
                    MatchesFilter(doc, buildFilterQuery(
                      [NoFilters EXCEPT !.ageRange = range])))]
  /\ resArray' =
       [t |-> "aged",
        items |-> IF range.has THEN filterByAgeRange(collection, range)
                  ELSE collection]
  /\ UNCHANGED <<clientVars, importer, clearedAt, loaderVars, now, collection,
                 stageVars>>

NextAge == \E range \in AgeQueries : FilterByAge(range)

SpecAge == InitAge /\ [][NextAge]_vars

\* age >= min if min is given and age <= max if max is given.
InAgeRange(doc, range) ==
  /\ (range.has /\ range.min # UndefinedNum) => doc.age >= range.min
  /\ (range.has /\ range.max # UndefinedNum) => doc.age <= range.max

\* C26: for every age range the query of buildFilterQuery selects the
\* records with min <= age <= max, each bound applying when it is given,
\* which are the records filterByAgeRange keeps.
C26_AgeRangeAgrees ==
  resMongo.t = "aged" =>
    /\ resMongo.items = SelectSeq(collection, LAMBDA doc : InAgeRange(doc, req.ageRange))
    /\ resMongo.items = resArray.items

(***************************************************************************)
(* The transactions slice of the Redux store                               *)
(***************************************************************************)
MaxFetches == 2    \* most fetchTransactions thunks dispatched

\* The default of the rejected reducer.
FailedToFetch == JsStr(<<"Failed to fetch transactions">>)

setSearch(s, payload) == [s EXCEPT !.search = payload]

\* payload.sortBy || state.sortBy: the empty string is no choice.
setSort(s, payload) ==
  [s EXCEPT !.sortBy = IF payload.sortBy # "" THEN payload.sortBy ELSE @,
            !.sortOrder = IF payload.sortOrder # "" THEN payload.sortOrder ELSE @]

\* fetchTransactions.pending
pending(s) == [s EXCEPT !.loading = TRUE, !.error = JsNull]

\* fetchTransactions.fulfilled
fulfilled(s, payload) ==
  [s EXCEPT !.loading = FALSE,
            !.items = payload.items,
            !.pagination = payload.pagination,
            !.aggregateStats = IF payload.aggregateStats \in {JsUndefined, JsNull}
                               THEN initialState.aggregateStats
                               ELSE payload.aggregateStats]

\* fetchTransactions.rejected
rejectedMutant(s, payload) ==
  [s EXCEPT !.loading = FALSE,
            !.items = <<>>,
            !.error = IF Falsy(payload) THEN FailedToFetch ELSE payload]

rejected(s, payload) ==
  [s EXCEPT !.loading = FALSE,
            !.error = IF Falsy(payload) THEN FailedToFetch ELSE payload]

\* The page the server sends for a search term and a page number: its one
\* item is named by the term.
PageOf(search, page) ==
  [items |-> <<search>>,
   pagination |-> [currentPage |-> page, pageSize |-> 10, totalItems |-> page,
                   totalPages |-> page, hasNextPage |-> FALSE,
                   hasPreviousPage |-> page > 1],
   aggregateStats |-> [totalUnits |-> Len(search), totalAmount |-> Len(search),
                       totalDiscount |-> 0, recordCount |-> page]]

SliceSearches == {<<>>, <<"a">>, <<"b">>}

SlicePages == {PageOf(se, pg) : se \in SliceSearches, pg \in 1..2}

\* Payloads of fulfilled: with aggregateStats, and without as the slice's
\* tests dispatch them.
FulfilledPayloads ==
  SlicePages \cup {[p EXCEPT !.aggregateStats = JsUndefined] : p \in SlicePages}

RejectedPayloads == {JsStr(<<"Network error">>), JsUndefined}

SortPayloads ==
  {[sortBy |-> "quantity", sortOrder |-> "asc"], [sortBy |-> "", sortOrder |-> "asc"],
   [sortBy |-> "date", sortOrder |-> ""]}

InitSlice ==
  /\ file = <<>>
  /\ fileExists = TRUE
  /\ collection = <<>>
  /\ LoaderIdle
  /\ EngineIdle
  /\ StagesIdle
  /\ ClientIdle
  /\ ImporterIdle
  /\ clearedAt = 0

\* Each action below dispatches one Redux action to the store.
SetSearch(term) ==
  /\ dispatched' = [type |-> "setSearch", payload |-> term]
  /\ state' = setSearch(state, term)
  /\ UNCHANGED <<requests, importer, clearedAt, loaderVars, now, engineVars,
                 stageVars>>

SetSort(payload) ==
  /\ dispatched' = [type |-> "setSort", payload |-> payload]
  /\ state' = setSort(state, payload)
  /\ UNCHANGED <<requests, importer, clearedAt, loaderVars, now, engineVars,
                 stageVars>>

FetchPending ==
  /\ dispatched' = [type |-> "pending", payload |-> JsUndefined]
  /\ state' = pending(state)
  /\ UNCHANGED <<requests, importer, clearedAt, loaderVars, now, engineVars,
                 stageVars>>

FetchFulfilled(payload) ==
  /\ dispatched' = [type |-> "fulfilled", payload |-> payload]
  /\ state' = fulfilled(state, payload)
  /\ UNCHANGED <<requests, importer, clearedAt, loaderVars, now, engineVars,
                 stageVars>>

FetchRejected(payload) ==
  /\ dispatched' = [type |-> "rejected", payload |-> payload]
  /\ state' = rejected(state, payload)
  /\ UNCHANGED <<requests, importer, clearedAt, loaderVars, now, engineVars,
                 stageVars>>

NextSlice ==
  \/ \E term \in SliceSearches : SetSearch(term)
  \/ \E payload \in SortPayloads : SetSort(payload)
  \/ FetchPending
  \/ \E payload \in FulfilledPayloads : FetchFulfilled(payload)
  \/ \E payload \in RejectedPayloads : FetchRejected(payload)

SpecSlice == InitSlice /\ [][NextSlice]_vars

\* pending: loading is set and the error is cleared.
PendingStep ==
  dispatched'.type = "pending" => (state'.loading /\ state'.error = JsNull)

\* rejected: loading is cleared and the error recorded; the items, the
\* pagination, the statistics, the search term and the sorting stay.
RejectedStep ==
  dispatched'.type = "rejected" =>
    /\ ~state'.loading
    /\ state'.error # JsNull
    /\ dispatched'.payload.t = "string" => state'.error = dispatched'.payload
    /\ state'.items = state.items
    /\ state'.pagination = state.pagination
    /\ state'.aggregateStats = state.aggregateStats
    /\ state'.search = state.search
    /\ state'.sortBy = state.sortBy
    /\ state'.sortOrder = state.sortOrder

\* C27 as stated: pending sets loading and clears the error; fulfilled
\* clears loading and replaces items, pagination and aggregateStats with
\* those of the payload; rejected clears loading and records the error and
\* leaves items, pagination, aggregateStats, search and sort as they were.
C27_FulfilledTakesPayload ==
  [][/\ PendingStep
     /\ dispatched'.type = "fulfilled" =>
          /\ ~state'.loading
          /\ state'.items = dispatched'.payload.items
          /\ state'.pagination = dispatched'.payload.pagination
          /\ state'.aggregateStats = dispatched'.payload.aggregateStats
     /\ RejectedStep]_vars

\* C27 as amended: as above, but fulfilled replaces aggregateStats with the
\* payload's when the payload has them and with the initial, all-zero
\* statistics when it has none.
C27_FetchLifecycle ==
  [][/\ PendingStep
     /\ dispatched'.type = "fulfilled" =>
          /\ ~state'.loading
          /\ state'.items = dispatched'.payload.items
          /\ state'.pagination = dispatched'.payload.pagination
          /\ state'.aggregateStats =
               IF dispatched'.payload.aggregateStats \in {JsUndefined, JsNull}
               THEN initialState.aggregateStats
               ELSE dispatched'.payload.aggregateStats
     /\ RejectedStep]_vars

\* A request is rejected after a page has arrived: the page is kept.
C27_Witness ==
  /\ dispatched.type = "rejected"
  /\ state.items = <<<<"a">>>>
  /\ state.aggregateStats.recordCount = 2
  /\ state.search = <<"b">>
  /\ state.sortBy = "quantity"
  /\ state.error = JsStr(<<"Network error">>)
  /\ ~state.loading

(***************************************************************************)
(* Clearing the cache while loads are in flight                            *)
(***************************************************************************)
NextClear ==
  \/ \E c \in Callers : LoadDataCall(c)
  \/ \E c \in Callers : OnData(c)
  \/ \E c \in Callers : OnEnd(c)
  \/ \E c \in Callers : OnError(c)
  \/ \E c \in Callers : Settle(c)
  \/ ClearCache

SpecClear == InitLoad /\ [][NextClear]_vars

\* C28: isLoaded is true exactly when data is not null, and what the cache
\* holds was read by a load that started after clearCache last returned: a
\* load in flight during the clear does not fill the cache again.
C28_ClearedStaysCleared ==
  /\ isLoaded <=> getData.ref # 0
  /\ getData.ref # 0 => getData.ref > clearedAt

(***************************************************************************)
(* Overlapping fetches of the App                                          *)
(***************************************************************************)
\* The argument App's effect hands to fetchTransactions: the query as the
\* store holds it.
Query(s) ==
  [search |-> s.search, sortBy |-> s.sortBy, sortOrder |-> s.sortOrder,
   page |-> s.pagination.currentPage, pageSize |-> s.pagination.pageSize]

\* The effect runs on mount and whenever one of its dependencies has changed
\* since it last ran: the thunk is dispatched, which dispatches pending and
\* calls the API.
FetchTransactions ==
  /\ Len(requests) < MaxFetches
  /\ IF requests = <<>> THEN TRUE
     ELSE requests[Len(requests)].arg # Query(state)
  /\ requests' = Append(requests, [arg |-> Query(state), status |-> "pending"])
  /\ dispatched' = [type |-> "pending", payload |-> JsUndefined]
  /\ state' = pending(state)
  /\ UNCHANGED <<importer, clearedAt, loaderVars, now, engineVars, stageVars>>

\* The API call of request i resolves with the server's page for its
\* argument: the thunk dispatches fulfilled.
Resolve(i) ==
  /\ i <= Len(requests)
  /\ requests[i].status = "pending"
  /\ requests' = [requests EXCEPT ![i].status = "fulfilled"]
  /\ LET payload == PageOf(requests[i].arg.search, requests[i].arg.page)
     IN /\ dispatched' = [type |-> "fulfilled", payload |-> payload]
        /\ state' = fulfilled(state, payload)
  /\ UNCHANGED <<importer, clearedAt, loaderVars, now, engineVars, stageVars>>

\* The API call of request i throws: rejectWithValue(error.message).
Reject(i) ==
  /\ i <= Len(requests)
  /\ requests[i].status = "pending"
  /\ requests' = [requests EXCEPT ![i].status = "rejected"]
  /\ LET payload == JsStr(<<"Network error">>)
     IN /\ dispatched' = [type |-> "rejected", payload |-> payload]
        /\ state' = rejected(state, payload)
  /\ UNCHANGED <<importer, clearedAt, loaderVars, now, engineVars, stageVars>>

NextFetch ==
  \/ \E term \in SliceSearches : SetSearch(term)
  \/ FetchTransactions
  \/ \E i \in 1..MaxFetches : Resolve(i)
  \/ \E i \in 1..MaxFetches : Reject(i)

SpecFetch == InitSlice /\ [][NextFetch]_vars

\* C29: once every request has been answered, the store shows the page of
\* the request dispatched last, in whatever order the answers came; and
\* loading is true while a request is in flight.
C29_LatestRequestWins ==
  /\ (requests # <<>> /\ \A i \in 1..Len(requests) : requests[i].status = "fulfilled")
       => LET latest == requests[Len(requests)].arg
              page == PageOf(latest.search, latest.page)
          IN /\ state.items = page.items
             /\ state.pagination = page.pagination
             /\ state.aggregateStats = page.aggregateStats
  /\ (\E i \in 1..Len(requests) : requests[i].status = "pending") => state.loading

(***************************************************************************)
(* DataImporter.importFromCSV                                              *)
(***************************************************************************)
MaxImportRows == 4   \* most rows in the imported file
MaxBatch == 2        \* largest batchSize

\* Rows are named by their position in the file.  importer holds
\*   rows, batchSize   the file's length and this.batchSize
\*   pos               rows handed to the 'data' handler so far
\*   paused            stream.pause() is in effect
\*   endQueued         the stream has scheduled 'end' already
\*   ended             'end' has been emitted
\*   batch             the closure's batch array
\*   awaiting          handlers suspended in await insertBatch(batch)
\*   passes            per row, how often it was passed to insertBatch
\*   stored            rows in the collection (transactionId is unique)
\*   totalImported, totalErrors
\* importFromCSV up to the point where the promise is returned.
ImportFromCSV(n, size) ==
  /\ importer = NoImport
  /\ importer' = [pc |-> "streaming", rows |-> n, batchSize |-> size, pos |-> 0,
                  paused |-> FALSE, endQueued |-> FALSE, ended |-> FALSE,
                  batch |-> <<>>, awaiting |-> {},
                  passes |-> [r \in 1..n |-> 0], stored |-> {},
                  totalImported |-> 0, totalErrors |-> 0]
  /\ UNCHANGED <<clientVars, clearedAt, loaderVars, now, engineVars, stageVars>>

\* insertBatch is called with the batch: every row of it is passed once more.
Passed(passes, batch) ==
  [r \in DOMAIN passes |-> passes[r] + Count(batch, r)]

\* The 'data' handler up to its first await.  A full batch pauses the stream
\* and is handed to insertBatch.  When the row is the last one and was read
\* from the stream's buffer after the source had finished, the stream has
\* scheduled 'end' before the handler ran, and pause() does not unschedule it.
OnRow(queued) ==
  /\ importer.pc = "streaming"
  /\ ~importer.paused
  /\ ~importer.ended
  /\ importer.pos < importer.rows
  /\ queued => importer.pos + 1 = importer.rows
  /\ LET row == importer.pos + 1
         batch == Append(importer.batch, row)
         full == Len(batch) >= importer.batchSize
     IN importer' =
          [importer EXCEPT
             !.pos = row,
             !.batch = batch,
             !.endQueued = queued,
             !.paused = full,
             !.awaiting = IF full THEN @ \cup {"data"} ELSE @,
             !.passes = IF full THEN Passed(@, batch) ELSE @]
  /\ UNCHANGED <<clientVars, clearedAt, loaderVars, now, engineVars, stageVars>>

\* insertBatch once insertMany has settled: the rows not yet in the
\* collection are written and the others are write errors of code 11000; a
\* failure of another kind is thrown to the caller.
insertBatch(imp, outcome) ==
  LET new == {imp.batch[i] : i \in 1..Len(imp.batch)} \ imp.stored
  IN IF outcome = "thrown" THEN imp
     ELSE [imp EXCEPT
             !.stored = @ \cup new,
             !.totalImported = @ + Cardinality(new),
             !.totalErrors = @ + (Len(imp.batch) - Cardinality(new))]

\* The 'data' handler after its await: the batch is cleared, counted as
\* errors when insertBatch threw, and the stream resumed.
OnRowInserted(outcome) ==
  /\ importer.pc # "none"
  /\ "data" \in importer.awaiting
  /\ LET imp == insertBatch(importer, outcome)
     IN importer' =
          [imp EXCEPT
             !.totalErrors = IF outcome = "thrown" THEN @ + Len(imp.batch) ELSE @,
             !.batch = <<>>,
             !.paused = FALSE,
             !.awaiting = @ \ {"data"}]
  /\ UNCHANGED <<clientVars, clearedAt, loaderVars, now, engineVars, stageVars>>

\* The 'end' handler up to its await: emitted once every row has been
\* handed over, when the stream flows or 'end' was scheduled before the pause.
OnImportEnd ==
  /\ importer.pc = "streaming"
  /\ ~importer.ended
  /\ importer.pos = importer.rows
  /\ ~importer.paused \/ importer.endQueued
  /\ importer' =
       IF Len(importer.batch) > 0
       THEN [importer EXCEPT !.ended = TRUE,
                             !.awaiting = @ \cup {"end"},
                             !.passes = Passed(@, importer.batch)]
       ELSE [importer EXCEPT !.ended = TRUE, !.pc = "resolved"]
  /\ UNCHANGED <<clientVars, clearedAt, loaderVars, now, engineVars, stageVars>>

\* The 'end' handler after its await: the promise is resolved.
OnImportEndInserted(outcome) ==
  /\ importer.pc = "streaming"
  /\ "end" \in importer.awaiting
  /\ LET imp == insertBatch(importer, outcome)
     IN importer' =
          [imp EXCEPT
             !.totalErrors = IF outcome = "thrown" THEN @ + Len(imp.batch) ELSE @,
             !.awaiting = @ \ {"end"},
             !.pc = "resolved"]
  /\ UNCHANGED <<clientVars, clearedAt, loaderVars, now, engineVars, stageVars>>

InsertOutcomes == {"settled", "thrown"}

NextImport ==
  \/ \E n \in 0..MaxImportRows, size \in 1..MaxBatch : ImportFromCSV(n, size)
  \/ \E queued \in BOOLEAN : OnRow(queued)
  \/ \E outcome \in InsertOutcomes : OnRowInserted(outcome)
  \/ OnImportEnd
  \/ \E outcome \in InsertOutcomes : OnImportEndInserted(outcome)

SpecImport == InitSlice /\ [][NextImport]_vars

\* C30: when the promise of importFromCSV resolves, every row has been
\* passed to insertBatch exactly once, and totalImported + totalErrors is
\* the number of rows read.
C30_EachRowInsertedOnce ==
  importer.pc = "resolved" =>
    /\ \A r \in 1..importer.rows : importer.passes[r] = 1
    /\ importer.totalImported + importer.totalErrors = importer.rows

====
